---------------------------- MODULE Spec2Model ----------------------------
(***************************************************************************)
(* LVGL UI automation framework: the TCP command server (tcp_server.c),    *)
(* the command queue and the widget registry (test_harness.c) and the main *)
(* loop (main.c).                                                          *)
(*                                                                         *)
(* Two threads exist: "net" runs tcp_server_start / process_command, "ui"  *)
(* runs the main loop with command_queue_process_all.                      *)
(*                                                                         *)
(*   Spec       the program as it is wired: the connection handler on the  *)
(*              network thread and the main loop on the UI thread.         *)
(*   QueueSpec  the command queue API: command_queue_push called from the  *)
(*              network thread, command_queue_process_all from the UI      *)
(*              thread, one step per lock operation and per access to the  *)
(*              shared queue.                                              *)
(***************************************************************************)
EXTENDS Integers, Sequences, FiniteSets, TLC

\* ------------------------------------------------------------------ bounds

\* Capacity of the ring buffer. The source sets 32; the model checks the
\* same code over a small ring so that filling it and wrapping round are
\* within reach.
MAX_COMMAND_QUEUE == 3

\* Capacity of the widget registry. The source sets 64; the model checks the
\* same code over a small array so that filling it is within reach.
MAX_WIDGETS == 3

\* Total number of command_queue_push calls in a run of QueueSpec.
MaxPush == 4

\* Total number of request lines received in a run of Spec.
MaxLines == 2

\* Total number of client connections accepted in a run of Spec.
MaxConn == 2

\* The tokens of a line that arrive with one recv() when the line is cut.
MaxCut == 4

\* ------------------------------------------------------- program constants

TEST_OK == 0
TEST_ERROR_NOT_FOUND == -1
TEST_ERROR_INVALID_PARAM == -2
TEST_ERROR_SCREENSHOT == -5
TEST_ERROR_QUEUE_FULL == -6

\* The commands the callers of command_queue_push draw from: one whose widget
\* is missing and one that brings a text back.
PushCommands ==
    {[type |-> "CMD_CLICK", id |-> "nope"],
     [type |-> "CMD_GET_TEXT", id |-> "btn_heart"]}

\* tcp_server.c: #define INVALID_SOCKET -1
INVALID_SOCKET == -1

\* The descriptor socket() returned to tcp_server_init: one that is neither
\* the standard input nor a connection.
ListenSocket == 100

\* Seconds the clock advances in WatchSpec.
MaxTick == 4

\* What time(NULL) returns when the program starts, in seconds; any value
\* of at least the three seconds a measurement lasts stands for a date.
ClockStart == 3

\* ------------------------------------------------------------------- state

VARIABLES
    \* test_harness.c: the widget registry
    widget_registry,   \* [1..MAX_WIDGETS -> [id, obj, active]]
    registry_size,
    regCall,           \* history: the last registry call and what it returned
    lastReg,           \* history: id -> handle of its last successful reg_widget
    cleaned,           \* history: cleanup_registry has run
    \* ui_watch.c: the screen shown and the text of the labels
    watch_ui,          \* [current_screen, hidden, text, heart_rate,
                       \*  is_measuring_heart, measurement_start]
    clock,             \* what time(NULL) returns, in seconds
    now,               \* ui_watch_update's local  time_t now
    measureBegan,      \* history: the clock when is_measuring_heart was set,
                       \* 0 when no measurement is under way
    \* test_harness.c: the command queue
    command_queue,     \* [0..MAX_COMMAND_QUEUE-1 -> command_t]
    queue_head,
    queue_tail,
    queue_size,
    queue_mutex,       \* "free", or the thread that holds it
    \* the network thread
    pcNet,             \* its position
    callerCmd,         \* the command_t the caller of push owns (QueueSpec)
    pushRet,           \* return value of the last command_queue_push
    lastPoll,          \* the caller's last read of its completion flag
    \* the UI thread
    pcUI,              \* its position
    cmd,               \* command_queue_process_all's local  command_t *cmd
    processed,         \* command_queue_process_all's local  int processed
    entry,             \* history: calls and pushes made when the pump was
                       \* entered, kept for the length of that call
    \* tcp_server.c
    server_socket,     \* the listening socket, or INVALID_SOCKET
    running,
    client_socket,     \* a connection accept() returned, numbered from 1, or
                       \* INVALID_SOCKET; 0, the value of the zero-initialised
                       \* struct, is the descriptor of the standard input
    closed,            \* history: the descriptors close() was called on
    client_connected,
    lines,             \* request lines of the received chunk still to process
    request,           \* the line process_command is working on
    responses,         \* what was written to the socket
    partial,           \* the line cut by the last recv(): its text, and the
                       \* part that has not arrived yet
    sent,              \* history: the non-empty lines whose newline arrived
    \* history
    pushCalls,         \* number of command_queue_push calls so far
    pushed,            \* number of successful pushes (the last sequence number)
    calls,             \* handler calls so far: [fn, thread, seq]
    completions,       \* sequence numbers in the order completed was set
    nLines,            \* request lines received so far
    nConn              \* connections accepted so far

registryVars == <<widget_registry, registry_size, regCall, lastReg, cleaned>>
queueVars == <<command_queue, queue_head, queue_tail, queue_size, queue_mutex>>
callerVars == <<callerCmd, pushRet, lastPoll>>
pumpVars == <<cmd, processed, entry>>
serverVars == <<server_socket, running, client_socket, closed,
                client_connected, lines, request, responses, partial, sent,
                nLines, nConn>>
historyVars == <<pushCalls, pushed, calls, completions>>
timeVars == <<clock, now, measureBegan>>

vars == <<registryVars, watch_ui, timeVars, queueVars, pcNet, callerVars, pcUI, pumpVars,
          serverVars, historyVars>>

\* ------------------------------------------------------- the widget registry

\* find_widget: the first active entry whose id equals the one asked for.
RECURSIVE FindFrom(_, _)
FindFrom(i, id) ==
    IF i > registry_size THEN "NULL"
    ELSE IF widget_registry[i].active /\ widget_registry[i].id = id
         THEN widget_registry[i].obj
         ELSE FindFrom(i + 1, id)

find_widget(id) == FindFrom(1, id)

\* A slot of the array as the static initialiser and the memset of
\* test_harness_init leave it.
ZeroEntry == [id |-> "", obj |-> "NULL", active |-> FALSE]

EmptyRegistry == [i \in 1 .. MAX_WIDGETS |-> ZeroEntry]

\* The registry ui_watch_create leaves behind, as far as the model's ids go.
RegistryAfterCreate ==
    [i \in 1 .. MAX_WIDGETS |->
        IF i = 1
        THEN [id |-> "heart_area", obj |-> "heart_area_obj", active |-> TRUE]
        ELSE IF i = 2
        THEN [id |-> "btn_heart", obj |-> "heart_area_obj", active |-> TRUE]
        ELSE IF i = 3
        THEN [id |-> "lbl_battery", obj |-> "lbl_battery_obj", active |-> TRUE]
        ELSE ZeroEntry]

SizeAfterCreate == 3

\* The ids callers of reg_widget pass. "long31_x" stands for an id longer
\* than MAX_ID_LEN - 1 bytes whose first MAX_ID_LEN - 1 bytes are "long31_";
\* the others fit. "NULL" is the null pointer.
RegIds == {"lbl_time", "lbl_date", "btn_menu", "long31_x"}
LongIds == {"long31_x"}
QueryIds == RegIds \cup {"long31_"}
Handles == {"obj1", "obj2"}

\* strncpy(dst, id, MAX_ID_LEN - 1) followed by the terminating zero: the
\* first MAX_ID_LEN - 1 bytes of id.
Strncpy31(id) == IF id \in LongIds THEN "long31_" ELSE id

\* reg_widget, line 69: the calls refused before the registry is looked at.
RegRejects(id, obj) ==
    id = "NULL" \/ obj = "NULL" \/ registry_size >= MAX_WIDGETS

\* reg_widget, lines 74-80: the index of the first active entry whose stored
\* id strcmp finds equal to id, 0 when there is none.
RECURSIVE DupFrom(_, _)
DupFrom(i, id) ==
    IF i > registry_size THEN 0
    ELSE IF widget_registry[i].active /\ widget_registry[i].id = id THEN i
    ELSE DupFrom(i + 1, id)

\* cleanup_registry, lines 109-111, with the id left as it was.
CleanedEntryKeepId(e) == [e EXCEPT !.obj = "NULL", !.active = FALSE]

\* cleanup_registry, lines 109-111: what the loop makes of one entry.
CleanedEntry(e) == ZeroEntry

\* reg_widget(id, obj)
RegWidget(id, obj) ==
    /\ IF RegRejects(id, obj)
       THEN /\ regCall' = [op |-> "reg", id |-> id, obj |-> obj,
                           ret |-> TEST_ERROR_INVALID_PARAM]
            /\ UNCHANGED <<widget_registry, registry_size, lastReg>>
       ELSE /\ regCall' = [op |-> "reg", id |-> id, obj |-> obj,
                           ret |-> TEST_OK]
            /\ lastReg' = [lastReg EXCEPT ![id] = obj]
            /\ IF DupFrom(1, id) # 0
               THEN /\ widget_registry' =
                           [widget_registry EXCEPT ![DupFrom(1, id)].obj = obj]
                    /\ UNCHANGED registry_size
               ELSE /\ widget_registry' =
                           [widget_registry EXCEPT ![registry_size + 1] =
                               [id |-> Strncpy31(id), obj |-> obj,
                                active |-> TRUE]]
                    /\ registry_size' = registry_size + 1
    /\ UNCHANGED <<cleaned, watch_ui, timeVars, queueVars, pcNet, callerVars, pcUI,
                   pumpVars, serverVars, historyVars>>

\* cleanup_registry()
CleanupRegistry ==
    /\ widget_registry' =
           [i \in 1 .. MAX_WIDGETS |->
               IF i <= registry_size THEN CleanedEntry(widget_registry[i])
               ELSE widget_registry[i]]
    /\ registry_size' = 0
    /\ regCall' = [op |-> "cleanup", id |-> "NULL", obj |-> "NULL",
                   ret |-> TEST_OK]
    /\ lastReg' = [id \in QueryIds |-> "NULL"]
    /\ cleaned' = TRUE
    /\ UNCHANGED <<watch_ui, timeVars, queueVars, pcNet, callerVars, pcUI, pumpVars,
                   serverVars, historyVars>>

\* --------------------------------------------------------- command handlers

\* test_click: TEST_ERROR_NOT_FOUND unless the id resolves.
test_click(id) ==
    IF find_widget(id) = "NULL" THEN TEST_ERROR_NOT_FOUND ELSE TEST_OK

\* test_longpress: the same lookup, then the press is simulated.
test_longpress(id) ==
    IF find_widget(id) = "NULL" THEN TEST_ERROR_NOT_FOUND ELSE TEST_OK

\* test_set_text without the lookup.
test_set_text_unchecked(id) == TEST_OK

\* test_set_text with a non-null text: the same lookup, then the text is set.
test_set_text(id) ==
    IF find_widget(id) = "NULL" THEN TEST_ERROR_NOT_FOUND ELSE TEST_OK

\* The label objects of the model: the label inside the heart button, the
\* battery label, and the value and instruction labels of the heart-rate
\* screen.
Labels ==
    {"lbl_heart_bpm_obj", "lbl_battery_obj", "lbl_hr_value_obj",
     "lbl_hr_instruction_obj"}

\* screen_t; each screen has one background object (main_bg, hr_bg,
\* activity_bg) that carries LV_OBJ_FLAG_HIDDEN or not.
Screens == {"SCREEN_MAIN", "SCREEN_HEART_RATE", "SCREEN_ACTIVITY"}

\* The values heart_rate takes in the model: 72 from ui_watch_create, and
\* the least and the greatest value of 65 + (rand() % 30).
HeartRates == {65, 72, 94}

\* snprintf(hr_buf, sizeof(hr_buf), "%d BPM", watch_ui.heart_rate)
BpmText(n) ==
    CASE n = 65 -> "65 BPM"
      [] n = 72 -> "72 BPM"
      [] n = 94 -> "94 BPM"

\* snprintf(hr_buf, sizeof(hr_buf), "HEART %d BPM", watch_ui.heart_rate)
HeartText(n) ==
    CASE n = 65 -> "HEART 65 BPM"
      [] n = 72 -> "HEART 72 BPM"
      [] n = 94 -> "HEART 94 BPM"

\* The UI ui_watch_create leaves behind: the three screens are built, then
\* show_screen(SCREEN_MAIN). The struct is zero-initialised, so a
\* measurement has never started.
UiAfterCreate ==
    [current_screen |-> "SCREEN_MAIN",
     hidden |-> {"SCREEN_HEART_RATE", "SCREEN_ACTIVITY"},
     text |-> [l \in Labels |->
                 CASE l = "lbl_heart_bpm_obj" -> HeartText(72)
                   [] l = "lbl_battery_obj" -> "85%"
                   [] l = "lbl_hr_value_obj" -> BpmText(72)
                   [] l = "lbl_hr_instruction_obj" -> "Hold to measure"],
     heart_rate |-> 72,
     is_measuring_heart |-> 0,
     measurement_start |-> 0]

\* test_get_text, lines 409-441: the text of a label, of the label child of a
\* button, or "widget_<id>" for any other object.
TextOf(obj) ==
    IF obj \in Labels THEN watch_ui.text[obj]
    ELSE IF obj = "heart_area_obj" THEN watch_ui.text["lbl_heart_bpm_obj"]
    ELSE "widget_id"

\* test_get_text: NULL unless the id resolves, else a copy of the text.
test_get_text(id) ==
    IF find_widget(id) = "NULL" THEN "NULL" ELSE TextOf(find_widget(id))

\* The arguments of a handler call; 0 and "" where the handler has none.
NoArgs ==
    [id |-> "", text |-> "", ms |-> 0, x1 |-> 0, y1 |-> 0, x2 |-> 0, y2 |-> 0,
     code |-> 0]

Abs(i) == IF i < 0 THEN 0 - i ELSE i

\* test_wait, with a screen change slipped in.
WaitEffectScreen == [watch_ui EXCEPT !.current_screen = "SCREEN_ACTIVITY"]

\* test_wait: usleep and nothing else.
WaitEffect == watch_ui

\* show_screen without the three lv_obj_add_flag calls.
ShowScreenKeepOthers(ui, screen) ==
    [ui EXCEPT !.hidden = @ \ {screen}, !.current_screen = screen]

\* show_screen: all three backgrounds are hidden, current_screen is set and
\* the background of the requested screen is shown.
ShowScreen(ui, screen) ==
    [ui EXCEPT !.hidden = Screens \ {screen}, !.current_screen = screen]

\* simulate_heart_button_click: ignored unless the main screen is shown.
simulate_heart_button_click(ui) ==
    IF ui.current_screen # "SCREEN_MAIN" THEN ui
    ELSE [ShowScreen([ui EXCEPT !.text["lbl_heart_bpm_obj"] = "OPENING..."],
                     "SCREEN_HEART_RATE")
            EXCEPT !.text["lbl_hr_instruction_obj"] = "Long press to measure"]

\* simulate_activity_button_click; the step count label is not modelled.
simulate_activity_button_click(ui) == ShowScreen(ui, "SCREEN_ACTIVITY")

\* simulate_heart_button_longpress: no test of the screen shown.
simulate_heart_button_longpress(ui) ==
    [ui EXCEPT !.text["lbl_heart_bpm_obj"] = "MEASURING...",
               !.text["lbl_hr_value_obj"] = "95 BPM"]

\* simulate_hr_measurement, lines 161-162: the two labels.
MeasureTexts(ui) ==
    [ui EXCEPT !.text["lbl_hr_value_obj"] = "Measuring...",
               !.text["lbl_hr_instruction_obj"] = "Hold still... measuring"]

\* simulate_hr_measurement, line 165: watch_ui.is_measuring_heart = 1
MeasureFlag(ui) == [ui EXCEPT !.is_measuring_heart = 1]

\* simulate_hr_measurement, line 166: watch_ui.measurement_start = time(NULL)
MeasureStart(ui, t) == [ui EXCEPT !.measurement_start = t]

\* simulate_hr_measurement run from its first line to its last.
simulate_hr_measurement(ui, t) ==
    IF ui.current_screen # "SCREEN_HEART_RATE" THEN ui
    ELSE MeasureStart(MeasureFlag(MeasureTexts(ui)), t)

\* test_swipe without the comparison of the two displacements.
SwipeTargetAnyDirection(dx, dy) ==
    IF dx < -50 THEN "SCREEN_ACTIVITY"
    ELSE IF dx > 50 THEN "SCREEN_MAIN"
    ELSE "none"

\* test_swipe, lines 373-381: the screen the swipe asks for, "none" when it
\* asks for no change.
SwipeTarget(dx, dy) ==
    IF Abs(dx) > Abs(dy)
    THEN IF dx < -50 THEN "SCREEN_ACTIVITY"
         ELSE IF dx > 50 THEN "SCREEN_MAIN"
         ELSE "none"
    ELSE "none"

\* test_swipe: emulate_swipe_gesture sleeps and the return value is TEST_OK.
test_swipe(x1, y1, x2, y2) == TEST_OK

\* What a handler makes of the UI once the id has been looked up: test_click
\* and test_longpress compare the id with the names below, set_text is asked
\* of labels only.
HandlerEffect(fn, args) ==
    LET obj == find_widget(args.id)
    IN  CASE fn = "test_click" /\ obj # "NULL" ->
               CASE args.id \in {"btn_heart", "heart_area"} ->
                      simulate_heart_button_click(watch_ui)
                 [] args.id = "btn_activity" ->
                      simulate_activity_button_click(watch_ui)
                 [] args.id \in {"activity_screen", "hr_screen"} ->
                      ShowScreen(watch_ui, "SCREEN_MAIN")
                 [] OTHER -> watch_ui
          [] fn = "test_longpress" /\ obj # "NULL" ->
               CASE args.id = "btn_heart" ->
                      simulate_heart_button_longpress(watch_ui)
                 [] args.id = "hr_measure_area" ->
                      simulate_hr_measurement(watch_ui, clock)
                 [] OTHER -> watch_ui
          [] fn = "test_set_text" /\ obj \in Labels ->
               [watch_ui EXCEPT !.text[obj] = args.text]
          [] fn = "test_swipe" ->
               LET target == SwipeTarget(args.x2 - args.x1, args.y2 - args.y1)
               IN  IF target = "none" THEN watch_ui
                   ELSE ShowScreen(watch_ui, target)
          [] fn = "test_wait" -> WaitEffect
          [] OTHER -> watch_ui

\* The function command_queue_process_all / process_command calls for a kind.
HandlerOf(type) ==
    CASE type = "CMD_CLICK" -> "test_click"
      [] type = "CMD_LONGPRESS" -> "test_longpress"
      [] type = "CMD_SWIPE" -> "test_swipe"
      [] type = "CMD_KEY_EVENT" -> "test_key_event"
      [] type = "CMD_GET_TEXT" -> "test_get_text"
      [] type = "CMD_SET_TEXT" -> "test_set_text"
      [] type = "CMD_SCREENSHOT" -> "test_screenshot"
      [] type = "CMD_WAIT" -> "test_wait"

\* Handlers that look a widget up in the registry or touch the UI.
WidgetTouching ==
    {"test_click", "test_longpress", "test_swipe", "test_get_text",
     "test_set_text", "test_screenshot"}

\* ------------------------------------------------------- the command queue

\* command_t after memset(0): CMD_CLICK is enumerator 0.
ZeroCommand ==
    [seq |-> 0, type |-> "CMD_CLICK", widget_id |-> "",
     response_text |-> "NULL", response_data |-> "NULL", response_len |-> 0,
     result |-> 0, completed |-> FALSE]

\* What a caller's command_t may hold in its response fields before push.
CleanResponse ==
    [response_text |-> "NULL", response_data |-> "NULL", response_len |-> 0,
     result |-> 0, completed |-> FALSE]

DirtyResponse ==
    [response_text |-> "junk", response_data |-> "junk", response_len |-> 1,
     result |-> TEST_ERROR_INVALID_PARAM, completed |-> TRUE]

MakeCommand(type, id, resp) ==
    [seq |-> 0, type |-> type, widget_id |-> id,
     response_text |-> resp.response_text,
     response_data |-> resp.response_data,
     response_len |-> resp.response_len,
     result |-> resp.result, completed |-> resp.completed]

NextIndexNoWrap(i) == i + 1

\* queue_tail = (queue_tail + 1) % MAX_COMMAND_QUEUE, and the same for head.
NextIndex(i) == (i + 1) % MAX_COMMAND_QUEUE

\* Slots head .. head+size-1 (mod capacity): the commands counted in the queue.
Occupied == {(queue_head + k) % MAX_COMMAND_QUEUE : k \in 0 .. queue_size - 1}

QueueIsFullNever == FALSE

QueueIsFullOffByOne == queue_size > MAX_COMMAND_QUEUE

\* command_queue_push: if (queue_size >= MAX_COMMAND_QUEUE)
QueueIsFull == queue_size >= MAX_COMMAND_QUEUE

ResetSlotKeepResult(c) ==
    [c EXCEPT !.completed = FALSE, !.response_text = "NULL",
              !.response_data = "NULL", !.response_len = 0]

\* command_queue_push: the five assignments after the struct copy.
ResetSlot(c) ==
    [c EXCEPT !.completed = FALSE, !.result = TEST_OK,
              !.response_text = "NULL", !.response_data = "NULL",
              !.response_len = 0]


\* The slot the pump works on: command_t *cmd = &command_queue[queue_head].
PeekIndexNewest == (queue_tail + MAX_COMMAND_QUEUE - 1) % MAX_COMMAND_QUEUE

PeekIndex == queue_head

MutexHeldAcrossHandler == "ui"

\* command_queue_process_all: MUTEX_UNLOCK() right after taking cmd.
MutexAfterPeek == "free"

\* The switch of command_queue_process_all: the command with the handler's
\* result stored in it. snapshotOk is whether capture_screenshot succeeds.
ExecInto(c, snapshotOk) ==
    CASE c.type = "CMD_CLICK" ->
           [c EXCEPT !.result = test_click(c.widget_id)]
      [] c.type = "CMD_LONGPRESS" ->
           [c EXCEPT !.result = test_longpress(c.widget_id)]
      [] c.type = "CMD_SET_TEXT" ->
           [c EXCEPT !.result = test_set_text(c.widget_id)]
      [] c.type = "CMD_GET_TEXT" ->
           [c EXCEPT !.response_text = test_get_text(c.widget_id),
                     !.result = IF test_get_text(c.widget_id) # "NULL"
                                THEN TEST_OK ELSE TEST_ERROR_NOT_FOUND]
      [] c.type = "CMD_SCREENSHOT" ->
           IF snapshotOk
           THEN [c EXCEPT !.response_data = "png", !.response_len = 1,
                          !.result = TEST_OK]
           ELSE [c EXCEPT !.response_data = "NULL", !.response_len = 0,
                          !.result = TEST_ERROR_SCREENSHOT]
      [] OTHER -> [c EXCEPT !.result = TEST_OK]

ExecIntoAndComplete(c, snapshotOk) ==
    [ExecInto(c, snapshotOk) EXCEPT !.completed = TRUE]

FlagWithoutResult(c, snapshotOk) == [c EXCEPT !.completed = TRUE]

\* What the handler call leaves in the slot when it returns.
HandlerReturnSlot(c, snapshotOk) == ExecInto(c, snapshotOk)

\* ------------------------------------ command_queue_push (network thread)

\* A caller on the network thread fills in a command_t and calls
\* command_queue_push(&cmd).
CallerPush(type, id, resp) ==
    /\ pcNet = "idle"
    /\ pushCalls < MaxPush
    /\ pcNet' = "push_lock"
    /\ callerCmd' = MakeCommand(type, id, resp)
    /\ lastPoll' = [made |-> FALSE, done |-> FALSE, saw |-> FALSE]
    /\ pushCalls' = pushCalls + 1
    /\ UNCHANGED <<registryVars, watch_ui, timeVars, queueVars, pushRet, pcUI, pumpVars,
                   serverVars, pushed, calls, completions>>

\* MUTEX_LOCK()
PushLock ==
    /\ pcNet = "push_lock"
    /\ queue_mutex = "free"
    /\ queue_mutex' = "net"
    /\ pcNet' = "push_check"
    /\ UNCHANGED <<registryVars, watch_ui, timeVars, command_queue, queue_head, queue_tail,
                   queue_size, callerVars, pcUI, pumpVars, serverVars,
                   historyVars>>

\* if (queue_size >= MAX_COMMAND_QUEUE) { MUTEX_UNLOCK(); return QUEUE_FULL; }
PushCheck ==
    /\ pcNet = "push_check"
    /\ IF QueueIsFull
       THEN /\ queue_mutex' = "free"
            /\ pushRet' = TEST_ERROR_QUEUE_FULL
            /\ pcNet' = "idle"
       ELSE /\ pcNet' = "push_copy"
            /\ UNCHANGED <<queue_mutex, pushRet>>
    /\ UNCHANGED <<registryVars, watch_ui, timeVars, command_queue, queue_head, queue_tail,
                   queue_size, callerCmd, lastPoll, pcUI, pumpVars,
                   serverVars, historyVars>>

PushSlotHead == queue_head

\* command_queue_push: every write goes to command_queue[queue_tail].
PushSlot == queue_tail

\* command_queue[queue_tail] = *cmd;  the whole struct, response fields too.
\* The sequence number is the model's name for the command.
PushCopy ==
    /\ pcNet = "push_copy"
    /\ command_queue' =
         [command_queue EXCEPT
            ![PushSlot] = [callerCmd EXCEPT !.seq = pushed + 1]]
    /\ pcNet' = "push_reset"
    /\ UNCHANGED <<registryVars, watch_ui, timeVars, queue_head, queue_tail, queue_size,
                   queue_mutex, callerVars, pcUI, pumpVars, serverVars,
                   historyVars>>

\* The response fields of the slot are reset, then tail and size move on.
PushReset ==
    /\ pcNet = "push_reset"
    /\ command_queue' =
         [command_queue EXCEPT ![PushSlot] = ResetSlot(@)]
    /\ queue_tail' = NextIndex(queue_tail)
    /\ queue_size' = queue_size + 1
    /\ pushed' = pushed + 1
    /\ pcNet' = "push_unlock"
    /\ UNCHANGED <<registryVars, watch_ui, timeVars, queue_head, queue_mutex, callerVars,
                   pcUI, pumpVars, serverVars, pushCalls, calls, completions>>

\* MUTEX_UNLOCK(); return TEST_OK;  the caller goes on to wait for completion.
PushUnlock ==
    /\ pcNet = "push_unlock"
    /\ queue_mutex' = "free"
    /\ pushRet' = TEST_OK
    /\ pcNet' = "poll"
    /\ UNCHANGED <<registryVars, watch_ui, timeVars, command_queue, queue_head, queue_tail,
                   queue_size, callerCmd, lastPoll, pcUI, pumpVars,
                   serverVars, historyVars>>

\* What the caller can read after the push: command_queue is static in
\* test_harness.c and push returns only an int, so the completion flag within
\* the caller's reach is the one of its own command_t.
CallerFlag == callerCmd.completed

\* One read of the completion flag by the waiting caller.
CallerPoll ==
    /\ pcNet = "poll"
    /\ lastPoll' = [made |-> TRUE,
                    done |-> pushed \in {completions[k] : k \in DOMAIN completions},
                    saw |-> CallerFlag]
    /\ pcNet' = IF CallerFlag THEN "collect" ELSE "poll"
    /\ UNCHANGED <<registryVars, watch_ui, timeVars, queueVars, callerCmd, pushRet, pcUI,
                   pumpVars, serverVars, historyVars>>

\* The caller stops waiting (its timeout, or the client went away).
CallerGiveUp ==
    /\ pcNet = "poll"
    /\ pcNet' = "idle"
    /\ UNCHANGED <<registryVars, watch_ui, timeVars, queueVars, callerVars, pcUI, pumpVars,
                   serverVars, historyVars>>

\* The caller reads the result from its command and is done with it.
CallerCollect ==
    /\ pcNet = "collect"
    /\ pcNet' = "idle"
    /\ UNCHANGED <<registryVars, watch_ui, timeVars, queueVars, callerVars, pcUI, pumpVars,
                   serverVars, historyVars>>

\* The caller writes to its own command_t after the push returned.
CallerScribble ==
    /\ pcNet = "poll"
    /\ callerCmd.widget_id # "scribbled"
    /\ callerCmd' = [callerCmd EXCEPT !.widget_id = "scribbled",
                                      !.result = TEST_ERROR_INVALID_PARAM]
    /\ UNCHANGED <<registryVars, watch_ui, timeVars, queueVars, pcNet, pushRet, lastPoll, pcUI,
                   pumpVars, serverVars, historyVars>>


\* ------------------------- command_queue_process_all (UI thread, main loop)

PumpHasWorkBeyondOne == queue_size > 1

\* command_queue_process_all: while (queue_size > 0)
PumpHasWork == queue_size > 0

PcAfterAdvanceReturn == "loop"

\* command_queue_process_all: the end of the loop body goes back to the test.
PcAfterAdvance == "pa_while"

\* main: while (running) { lv_timer_handler(); ...
MainTimerHandler ==
    /\ pcUI = "loop"
    /\ pcUI' = "pump"
    /\ UNCHANGED <<registryVars, watch_ui, timeVars, queueVars, pcNet, callerVars, pumpVars,
                   serverVars, historyVars>>

\* main: the loop body reaches command_queue_process_all(); processed = 0.
PumpEnter ==
    /\ pcUI = "pump"
    /\ pcUI' = "pa_while"
    /\ processed' = 0
    /\ entry' = [calls |-> Len(calls), pushed |-> pushed]
    /\ UNCHANGED <<registryVars, watch_ui, timeVars, queueVars, pcNet, callerVars, cmd,
                   serverVars, historyVars>>

\* while (queue_size > 0): read without the lock. When it fails the call
\* returns processed and the main loop sleeps until its next turn.
PumpWhile ==
    /\ pcUI = "pa_while"
    /\ pcUI' = IF PumpHasWork THEN "pa_lock" ELSE "loop"
    /\ entry' = IF PumpHasWork THEN entry ELSE [calls |-> 0, pushed |-> 0]
    /\ UNCHANGED <<registryVars, watch_ui, timeVars, queueVars, pcNet, callerVars, cmd,
                   processed, serverVars, historyVars>>

\* MUTEX_LOCK()
PumpLock ==
    /\ pcUI = "pa_lock"
    /\ queue_mutex = "free"
    /\ queue_mutex' = "ui"
    /\ pcUI' = "pa_peek"
    /\ UNCHANGED <<registryVars, watch_ui, timeVars, command_queue, queue_head, queue_tail,
                   queue_size, pcNet, callerVars, pumpVars, serverVars,
                   historyVars>>

\* if (queue_size == 0) { unlock; break; }  cmd = &command_queue[queue_head];
\* MUTEX_UNLOCK();
PumpPeek ==
    /\ pcUI = "pa_peek"
    /\ IF queue_size = 0
       THEN /\ queue_mutex' = "free"
            /\ pcUI' = "loop"
            /\ UNCHANGED cmd
       ELSE /\ cmd' = PeekIndex
            /\ queue_mutex' = MutexAfterPeek
            /\ pcUI' = "pa_call"
    /\ UNCHANGED <<registryVars, watch_ui, timeVars, command_queue, queue_head, queue_tail,
                   queue_size, pcNet, callerVars, processed, entry,
                   serverVars, historyVars>>

\* The arguments the switch passes from a queued command.
QueuedArgs(c) == [NoArgs EXCEPT !.id = c.widget_id]

\* switch (cmd->type): the handler is called on the calling thread.
PumpCall ==
    /\ pcUI = "pa_call"
    /\ calls' = Append(calls, [fn |-> HandlerOf(command_queue[cmd].type),
                               thread |-> "ui",
                               seq |-> command_queue[cmd].seq,
                               args |-> QueuedArgs(command_queue[cmd])])
    /\ watch_ui' = HandlerEffect(HandlerOf(command_queue[cmd].type),
                                 QueuedArgs(command_queue[cmd]))
    /\ pcUI' = "pa_handler"
    /\ UNCHANGED <<registryVars, timeVars, queueVars, pcNet, callerVars, pumpVars,
                   serverVars, pushCalls, pushed, completions>>

\* The handler returns and its result is stored through cmd.
PumpReturn(snapshotOk) ==
    /\ pcUI = "pa_handler"
    /\ command_queue' =
         [command_queue EXCEPT ![cmd] = HandlerReturnSlot(@, snapshotOk)]
    /\ pcUI' = "pa_complete"
    /\ UNCHANGED <<registryVars, watch_ui, timeVars, queue_head, queue_tail, queue_size,
                   queue_mutex, pcNet, callerVars, pumpVars, serverVars,
                   historyVars>>

\* cmd->completed = 1;  written before the lock is taken again.
PumpComplete ==
    /\ pcUI = "pa_complete"
    /\ command_queue' = [command_queue EXCEPT ![cmd].completed = TRUE]
    /\ completions' = Append(completions, command_queue[cmd].seq)
    /\ pcUI' = "pa_lock2"
    /\ UNCHANGED <<registryVars, watch_ui, timeVars, queue_head, queue_tail, queue_size,
                   queue_mutex, pcNet, callerVars, pumpVars, serverVars,
                   pushCalls, pushed, calls>>

\* MUTEX_LOCK()
PumpLock2 ==
    /\ pcUI = "pa_lock2"
    /\ queue_mutex = "free"
    /\ queue_mutex' = "ui"
    /\ pcUI' = "pa_advance"
    /\ UNCHANGED <<registryVars, watch_ui, timeVars, command_queue, queue_head, queue_tail,
                   queue_size, pcNet, callerVars, pumpVars, serverVars,
                   historyVars>>

\* queue_head = (queue_head + 1) % MAX; queue_size--; MUTEX_UNLOCK();
\* processed++;
PumpAdvance ==
    /\ pcUI = "pa_advance"
    /\ queue_head' = NextIndex(queue_head)
    /\ queue_size' = queue_size - 1
    /\ queue_mutex' = "free"
    /\ processed' = processed + 1
    /\ pcUI' = PcAfterAdvance
    /\ UNCHANGED <<registryVars, watch_ui, timeVars, command_queue, queue_tail, pcNet,
                   callerVars, cmd, entry, serverVars, historyVars>>

\* ------------------------------------------------- the queue specification

\* The queue, the threads and the server after start-up.
InitRest ==
    /\ watch_ui = UiAfterCreate
    /\ clock = ClockStart
    /\ now = 0
    /\ measureBegan = 0
    /\ command_queue = [i \in 0 .. MAX_COMMAND_QUEUE - 1 |-> ZeroCommand]
    /\ queue_head = 0
    /\ queue_tail = 0
    /\ queue_size = 0
    /\ queue_mutex = "free"
    /\ callerCmd = ZeroCommand
    /\ pushRet = TEST_OK
    /\ lastPoll = [made |-> FALSE, done |-> FALSE, saw |-> FALSE]
    /\ pcUI = "loop"
    /\ cmd = 0
    /\ processed = 0
    /\ entry = [calls |-> 0, pushed |-> 0]
    /\ client_connected = 0
    /\ lines = <<>>
    /\ request = <<>>
    /\ responses = <<>>
    /\ partial = [whole |-> <<>>, rest |-> <<>>]
    /\ sent = <<>>
    /\ pushCalls = 0
    /\ pushed = 0
    /\ calls = <<>>
    /\ completions = <<>>
    /\ nLines = 0
    /\ nConn = 0
    /\ server_socket = ListenSocket
    /\ running = 1
    /\ client_socket = 0
    /\ closed = {}

\* The state after test_harness_init, ui_watch_create and tcp_server_init.
InitShared ==
    /\ widget_registry = RegistryAfterCreate
    /\ registry_size = SizeAfterCreate
    /\ regCall = [op |-> "none", id |-> "NULL", obj |-> "NULL", ret |-> TEST_OK]
    /\ lastReg = [id \in QueryIds |-> "NULL"]
    /\ cleaned = FALSE
    /\ InitRest

QueueInit ==
    /\ InitShared
    /\ pcNet = "idle"

QueueNext ==
    \/ \E c \in PushCommands, resp \in {CleanResponse, DirtyResponse} :
          CallerPush(c.type, c.id, resp)
    \/ PushLock
    \/ PushCheck
    \/ PushCopy
    \/ PushReset
    \/ PushUnlock
    \/ CallerPoll
    \/ CallerGiveUp
    \/ CallerCollect
    \/ CallerScribble
    \/ MainTimerHandler
    \/ PumpEnter
    \/ PumpWhile
    \/ PumpLock
    \/ PumpPeek
    \/ PumpCall
    \/ \E snapshotOk \in BOOLEAN : PumpReturn(snapshotOk)
    \/ PumpComplete
    \/ PumpLock2
    \/ PumpAdvance

QueueSpec == QueueInit /\ [][QueueNext]_vars

\* The steps of the UI thread: the main loop and the pump.
UIStep ==
    \/ MainTimerHandler
    \/ PumpEnter
    \/ PumpWhile
    \/ PumpLock
    \/ PumpPeek
    \/ PumpCall
    \/ \E snapshotOk \in BOOLEAN : PumpReturn(snapshotOk)
    \/ PumpComplete
    \/ PumpLock2
    \/ PumpAdvance

\* The steps of a command_queue_push that has been called.
PushStep == PushLock \/ PushCheck \/ PushCopy \/ PushReset \/ PushUnlock

\* The queue under a caller that pushes commands and stops waiting for them
\* (its timeout, or its client disconnecting) whenever it likes.
LiveQueueNext ==
    \/ \E c \in PushCommands : CallerPush(c.type, c.id, CleanResponse)
    \/ PushStep
    \/ CallerGiveUp
    \/ UIStep

\* The scheduling the program has: the main loop keeps running (while
\* (running), handlers return) and a thread inside command_queue_push runs on
\* to its return. Whether the caller pushes or gives up is left open.
FairQueueSpec ==
    /\ QueueInit
    /\ [][LiveQueueNext]_vars
    /\ WF_vars(UIStep)
    /\ WF_vars(PushStep)


\* ---------------------------------------------- the registry specification

\* The registry after test_harness_init, before any widget is registered.
RegistryInit ==
    /\ widget_registry = EmptyRegistry
    /\ registry_size = 0
    /\ regCall = [op |-> "none", id |-> "NULL", obj |-> "NULL", ret |-> TEST_OK]
    /\ lastReg = [id \in QueryIds |-> "NULL"]
    /\ cleaned = FALSE
    /\ InitRest
    /\ pcNet = "idle"

RegistryNext ==
    \/ \E id \in RegIds \cup {"NULL"}, obj \in Handles \cup {"NULL"} :
          RegWidget(id, obj)
    \/ CleanupRegistry

RegistrySpec == RegistryInit /\ [][RegistryNext]_vars

\* ------------------------------- tcp_server_start / process_command (net)

\* A request line is the sequence of tokens the scanner meets, white space
\* left out: the braces, colon and comma, a double-quoted string, a run of
\* digits, a '-' followed by digits, and a bare word (true, false, null).
LB == [k |-> "{", s |-> "", n |-> 0]
RB == [k |-> "}", s |-> "", n |-> 0]
COLON == [k |-> ":", s |-> "", n |-> 0]
COMMA == [k |-> ",", s |-> "", n |-> 0]
Str(x) == [k |-> "str", s |-> x, n |-> 0]
Num(i) == [k |-> "num", s |-> "", n |-> i]
Neg(i) == [k |-> "neg", s |-> "", n |-> i]
Lit(w) == [k |-> "lit", s |-> w, n |-> 0]

\* The text of an object with the given members, in order.
RECURSIVE Members(_)
Members(ps) ==
    IF Len(ps) = 0 THEN <<>>
    ELSE <<Str(ps[1].key), COLON, ps[1].val>>
         \o (IF Len(ps) > 1 THEN <<COMMA>> ELSE <<>>)
         \o Members(Tail(ps))

Obj(ps) == <<LB>> \o Members(ps) \o <<RB>>

KV(key, val) == [key |-> key, val |-> val]

\* The request lines a client sends; <<>> is a line of white space only.
RequestLines ==
    {Obj(<<KV("cmd", Str("click")), KV("id", Str("btn_heart"))>>),
     Obj(<<KV("cmd", Str("click")), KV("id", Str("nope"))>>),
     Obj(<<KV("cmd", Str("click"))>>),
     Obj(<<KV("id", Num(7)), KV("cmd", Str("longpress"))>>),
     Obj(<<KV("id", Str("btn_heart"))>>),
     Obj(<<KV("cmd", Num(7))>>),
     Obj(<<KV("id", Str("btn_heart")), KV("cmd", Str("get_state"))>>),
     Obj(<<KV("cmd", Str("wait"))>>),
     Obj(<<KV("cmd", Str("bogus"))>>),
     Obj(<<KV("cmd", Str("swipe")), KV("x1", Num(10)), KV("y1", Num(10)),
           KV("x2", Neg(5)), KV("y2", Num(10))>>),
     Obj(<<KV("cmd", Str("set_text")), KV("id", Str("btn_heart"))>>),
     Obj(<<KV("cmd", Str("screenshot"))>>),
     Obj(<<KV("v", Lit("true")), KV("cmd", Str("click")),
           KV("id", Str("btn_heart"))>>),
     <<>>}

\* find_key, lines 127-142: the value tokens the scanner steps over on its
\* way to the next key, here narrowed to strings.
SkipsValueStrings(tok) == tok.k = "str"

\* find_key, lines 127-142: the value tokens the scanner steps over on its
\* way to the next key, here widened to bare words.
SkipsValueAny(tok) == tok.k \in {"str", "num", "neg", "lit"}

\* find_key, lines 127-142: the value tokens the scanner steps over on its
\* way to the next key.
SkipsValue(tok) == tok.k \in {"str", "num", "neg"}

\* find_key, the loop of lines 107-152, from the token at pos: the position
\* of the value of key, 0 for the return value -1.
RECURSIVE KeyLoop(_, _, _)
KeyLoop(line, pos, key) ==
    IF pos > Len(line) THEN 0
    ELSE IF line[pos].k = "}" THEN 0
    ELSE IF line[pos].k # "str" THEN 0
    ELSE IF pos + 1 > Len(line) \/ line[pos + 1].k # ":" THEN 0
    ELSE IF line[pos].s = key THEN pos + 2
    ELSE LET afterValue ==
                 IF pos + 2 <= Len(line) /\ SkipsValue(line[pos + 2])
                 THEN pos + 3 ELSE pos + 2
             afterComma ==
                 IF afterValue <= Len(line) /\ line[afterValue].k = ","
                 THEN afterValue + 1 ELSE afterValue
         IN  KeyLoop(line, afterComma, key)

\* find_key: always scans from the start of the line.
find_key(line, key) ==
    IF Len(line) = 0 \/ line[1].k # "{" THEN 0 ELSE KeyLoop(line, 2, key)

\* find_key(key) == 0 followed by parse_string: the string, "none" when
\* either fails. The model's strings are shorter than the buffers they are
\* copied to.
parse_string(line, key) ==
    LET pos == find_key(line, key)
    IN  IF pos = 0 \/ pos > Len(line) THEN "none"
        ELSE IF line[pos].k # "str" THEN "none"
        ELSE line[pos].s

\* A run of digits too long for the field n of a token: the token carries
\* the digits as written.
Big(digits) == [k |-> "num", s |-> digits, n |-> 0]

\* The digits of a number that fits the field n, most significant first.
RECURSIVE DecimalDigits(_)
DecimalDigits(i) ==
    IF i < 10 THEN <<i>> ELSE Append(DecimalDigits(i \div 10), i % 10)

\* The characters of a "num" token that isdigit accepts, as numbers.
DigitsOf(tok) ==
    CASE tok.s = "4294967396" -> <<4, 2, 9, 4, 9, 6, 7, 3, 9, 6>>
      [] tok.s = "2147483648" -> <<2, 1, 4, 7, 4, 8, 3, 6, 4, 8>>
      [] OTHER -> DecimalDigits(tok.n)

\* INT_MAX of a 32-bit int, in digits.
IntMaxDigits == <<2, 1, 4, 7, 4, 8, 3, 6, 4, 7>>

\* The digits from place i on are a greater number than those of INT_MAX.
RECURSIVE GreaterFrom(_, _)
GreaterFrom(digits, i) ==
    IF i > Len(digits) THEN FALSE
    ELSE IF digits[i] # IntMaxDigits[i] THEN digits[i] > IntMaxDigits[i]
    ELSE GreaterFrom(digits, i + 1)

\* value * 10 + digit leaves the range of int somewhere along the digits
\* (none of the model's numbers is written with leading zeros).
Overflows(digits) ==
    \/ Len(digits) > Len(IntMaxDigits)
    \/ Len(digits) = Len(IntMaxDigits) /\ GreaterFrom(digits, 1)

\* parse_int, lines 87-90: value = value * 10 + digit for each digit, in a
\* 32-bit int that wraps around; the value is kept as its upper and lower
\* 16 bits.
RECURSIVE Accumulate(_, _, _, _)
Accumulate(digits, i, hi, lo) ==
    IF i > Len(digits) THEN <<hi, lo>>
    ELSE LET low == lo * 10 + digits[i]
         IN  Accumulate(digits, i + 1,
                        (hi * 10 + low \div 65536) % 65536, low % 65536)

\* The int of those 32 bits, in two's complement.
AsInt(halves) ==
    IF halves[1] >= 32768
    THEN (halves[1] - 65536) * 65536 + halves[2]
    ELSE halves[1] * 65536 + halves[2]

\* find_key(key) == 0 followed by parse_int: -1 when either fails or the
\* value does not start with a digit, else what the loop accumulates. Where
\* the loop overflows, this is the outcome of a build whose int wraps.
parse_int(line, key) ==
    LET pos == find_key(line, key)
    IN  IF pos = 0 \/ pos > Len(line) THEN -1
        ELSE IF line[pos].k # "num" THEN -1
        ELSE AsInt(Accumulate(DigitsOf(line[pos]), 1, 0, 0))

\* The ms of a longpress or wait: the default unless "ms" is found and
\* parse_int gives more than 0.
MsOrDefault(line, default) ==
    IF parse_int(line, "ms") <= 0 THEN default ELSE parse_int(line, "ms")

\* The arguments process_command passes to the handler of a decoded request.
HandlerArgs(line) ==
    LET c == parse_string(line, "cmd")
    IN  CASE c \in {"click", "get_state"} ->
               [NoArgs EXCEPT !.id = parse_string(line, "id")]
          [] c = "longpress" ->
               [NoArgs EXCEPT !.id = parse_string(line, "id"),
                              !.ms = MsOrDefault(line, 1000)]
          [] c = "set_text" ->
               [NoArgs EXCEPT !.id = parse_string(line, "id"),
                              !.text = parse_string(line, "text")]
          [] c = "swipe" ->
               [NoArgs EXCEPT !.x1 = parse_int(line, "x1"),
                              !.y1 = parse_int(line, "y1"),
                              !.x2 = parse_int(line, "x2"),
                              !.y2 = parse_int(line, "y2")]
          [] c = "key" -> [NoArgs EXCEPT !.code = parse_int(line, "code")]
          [] c = "wait" -> [NoArgs EXCEPT !.ms = MsOrDefault(line, 100)]
          [] OTHER -> NoArgs

\* The wire names of the command kinds process_command knows.
KnownCmds ==
    {"click", "longpress", "swipe", "key", "get_state", "set_text",
     "screenshot", "wait", "click_at", "mouse_move", "drag"}

\* process_command up to the handler call: "ok" when the request decodes,
\* else the error reason it answers with.
Decode(line) ==
    LET c == parse_string(line, "cmd")
        bad(keys) == \E key \in keys : parse_int(line, key) < 0
    IN  CASE c = "none" -> "invalid_json"
          [] c \in {"click", "longpress", "get_state"} ->
               IF parse_string(line, "id") = "none" THEN "missing_id"
               ELSE "ok"
          [] c \in {"swipe", "drag"} ->
               IF bad({"x1", "y1", "x2", "y2"}) THEN "invalid_coordinates"
               ELSE "ok"
          [] c = "key" ->
               IF bad({"code"}) THEN "invalid_key_code" ELSE "ok"
          [] c = "set_text" ->
               IF \/ parse_string(line, "id") = "none"
                  \/ parse_string(line, "text") = "none"
               THEN "missing_parameters" ELSE "ok"
          [] c \in {"screenshot", "wait"} -> "ok"
          [] c \in {"click_at", "mouse_move"} ->
               IF bad({"x", "y"}) THEN "invalid_coordinates" ELSE "ok"
          [] OTHER -> "unknown_command"

\* The handler process_command calls for a decoded request.
ServerHandlerOf(line) ==
    LET c == parse_string(line, "cmd")
    IN  CASE c = "click" -> "test_click"
          [] c = "longpress" -> "test_longpress"
          [] c = "swipe" -> "test_swipe"
          [] c = "key" -> "test_key_event"
          [] c = "get_state" -> "test_get_text"
          [] c = "set_text" -> "test_set_text"
          [] c = "screenshot" -> "test_screenshot"
          [] c = "wait" -> "test_wait"
          [] c = "click_at" -> "test_click_at"
          [] c = "mouse_move" -> "test_mouse_move"
          [] c = "drag" -> "test_drag"
          [] OTHER -> "none"

\* The texts longer than any name or message of the protocol: "text255" is
\* the longest text a set_text request can carry (255 bytes, the text buffer
\* of process_command less its terminator), "text600" a text of 600 bytes.
LongTexts == {"text255", "text600"}

\* strlen. Every other string of the model is at most MAX_ID_LEN - 1 bytes
\* long and counts as that.
Strlen(str) ==
    CASE str = "text255" -> 255
      [] str = "text600" -> 600
      [] OTHER -> 31

\* The sizes of the response buffers and the lengths of the formats written
\* to them, the %s left out.
OK_BUF == 128
OK_FORMAT_LEN == 25
ERROR_BUF == 256
ERROR_FORMAT_LEN == 39
STATE_BUF == 512
STATE_FORMAT_LEN == 35

\* snprintf(buf, size, ...): the whole text is written, newline included,
\* when it and the terminator fit; else it is cut short.
SnprintfFits(size, len) == len < size

\* The bytes of the image capture_screenshot hands over, and the bytes a
\* send() takes when it takes only part of them.
RAW_LEN == 2
PART_LEN == 1

\* send_ok_response / send_error_response after a handler has returned.
Answer(line, ok, reason) ==
    LET c == parse_string(line, "cmd")
    IN  [status |-> IF ok THEN "ok" ELSE "error",
         cmd |-> c,
         error |-> IF ok THEN "" ELSE reason,
         text |-> "", payload |-> FALSE, len |-> 0, payload_bytes |-> 0,
         complete |-> IF ok
                      THEN SnprintfFits(OK_BUF, OK_FORMAT_LEN + Strlen(c))
                      ELSE SnprintfFits(ERROR_BUF, ERROR_FORMAT_LEN + Strlen(c)
                                                   + Strlen(reason)),
         decoded |-> TRUE, line |-> line]

\* The reason sent when the handler of the kind fails, the same word for every
\* kind.
FailureOfAnyKind(c) == "failed"

\* The reason sent when the handler of the kind fails.
FailureOf(c) ==
    CASE c = "swipe" -> "swipe_failed"
      [] c = "key" -> "key_event_failed"
      [] c = "click_at" -> "click_failed"
      [] c = "mouse_move" -> "mouse_move_failed"
      [] c = "drag" -> "drag_failed"
      [] c = "screenshot" -> "screenshot_failed"
      [] OTHER -> "widget_not_found"

\* What the response depends on besides the request and the UI: whether
\* capture_screenshot produced an image, whether send() took all the bytes
\* of the image, and whether test_click_at, test_mouse_move or test_drag,
\* which this repository calls and does not define, returned TEST_OK.
Envs == [snapshotOk : BOOLEAN, sendAll : BOOLEAN, externOk : BOOLEAN]

\* The response process_command writes once the handler has returned. The
\* header of a screenshot has no "cmd" member and is followed by the image
\* bytes, written by one send().
ResponseOf(line, env) ==
    LET c == parse_string(line, "cmd")
        id == parse_string(line, "id")
    IN  CASE c = "click" ->
               Answer(line, test_click(id) = TEST_OK, FailureOf(c))
          [] c = "longpress" ->
               Answer(line, test_longpress(id) = TEST_OK, FailureOf(c))
          [] c = "set_text" ->
               Answer(line, test_set_text(id) = TEST_OK, FailureOf(c))
          [] c = "get_state" ->
               IF test_get_text(id) # "NULL"
               THEN [Answer(line, TRUE, "") EXCEPT
                        !.text = test_get_text(id),
                        !.complete =
                            SnprintfFits(STATE_BUF,
                                         STATE_FORMAT_LEN + Strlen(c)
                                         + Strlen(test_get_text(id)))]
               ELSE Answer(line, FALSE, FailureOf(c))
          [] c = "screenshot" ->
               IF env.snapshotOk
               THEN [Answer(line, TRUE, "") EXCEPT
                        !.cmd = "", !.payload = TRUE, !.len = RAW_LEN,
                        !.complete = TRUE,
                        !.payload_bytes = IF env.sendAll THEN RAW_LEN
                                          ELSE PART_LEN]
               ELSE Answer(line, FALSE, FailureOf(c))
          [] c = "swipe" ->
               Answer(line,
                      test_swipe(parse_int(line, "x1"), parse_int(line, "y1"),
                                 parse_int(line, "x2"), parse_int(line, "y2"))
                        = TEST_OK,
                      FailureOf(c))
          [] c \in {"click_at", "mouse_move", "drag"} ->
               Answer(line, env.externOk, FailureOf(c))
          [] OTHER -> Answer(line, TRUE, "")

\* send_error_response: cmd is "unknown" when no command name was parsed.
ErrorResponse(line, reason) ==
    LET c == IF reason = "invalid_json" THEN "unknown"
             ELSE parse_string(line, "cmd")
    IN  [status |-> "error", cmd |-> c, error |-> reason, text |-> "",
         payload |-> FALSE, len |-> 0, payload_bytes |-> 0,
         complete |-> SnprintfFits(ERROR_BUF, ERROR_FORMAT_LEN + Strlen(c)
                                              + Strlen(reason)),
         decoded |-> FALSE, line |-> line]

\* No line is waiting for its remaining bytes.
NoPartial == [whole |-> <<>>, rest |-> <<>>]

\* process_command, after send_error_response for a request it rejects,
\* going on to the handler call.
PcAfterRejectFallThrough == "srv_call"

\* process_command, after send_error_response for a request it rejects,
\* leaving the receive loop for close().
PcAfterRejectClose == "close"

\* process_command returns after send_error_response for a request it
\* rejects.
PcAfterReject == "lines"

\* accept() returns a client.
SrvAccept ==
    /\ pcNet = "accept"
    /\ nConn < MaxConn
    /\ nConn' = nConn + 1
    /\ client_socket' = nConn + 1
    /\ client_connected' = 1
    /\ pcNet' = "recv"
    /\ UNCHANGED <<registryVars, watch_ui, timeVars, queueVars, callerVars, pcUI, pumpVars,
                   server_socket, running, closed, lines, request, responses,
                   partial, sent, nLines, historyVars>>

\* What the strtok loop sees of the bytes recv() returned: the rest of a
\* line whose first bytes came with the recv() before, the whole lines of
\* chunk, and of the last line of chunk only its first cut tokens when cut
\* is not 0.
Pieces(chunk, cut) ==
    (IF partial = NoPartial THEN <<>> ELSE <<partial.rest>>)
    \o (IF cut = 0 THEN chunk
        ELSE SubSeq(chunk, 1, Len(chunk) - 1)
             \o <<SubSeq(chunk[Len(chunk)], 1, cut)>>)

\* The lines whose newline arrived with this recv(), those of white space
\* only left out.
Ended(chunk, cut) ==
    SelectSeq((IF partial = NoPartial THEN <<>> ELSE <<partial.whole>>)
              \o (IF cut = 0 THEN chunk
                  ELSE SubSeq(chunk, 1, Len(chunk) - 1)),
              LAMBDA l : Len(l) > 0)

\* recv() returns bytes of the stream: TCP cuts it where it likes, so the
\* last line may arrive without its end.
SrvRecv(chunk, cut) ==
    /\ pcNet = "recv"
    /\ nLines + Len(chunk) <= MaxLines
    /\ Len(chunk) > 0 \/ partial # NoPartial
    /\ cut > 0 => Len(chunk) > 0 /\ cut < Len(chunk[Len(chunk)])
    /\ nLines' = nLines + Len(chunk)
    /\ lines' = Pieces(chunk, cut)
    /\ sent' = sent \o Ended(chunk, cut)
    /\ partial' = IF cut = 0 THEN NoPartial
                  ELSE LET last == chunk[Len(chunk)]
                       IN  [whole |-> last,
                            rest |-> SubSeq(last, cut + 1, Len(last))]
    /\ pcNet' = "lines"
    /\ UNCHANGED <<registryVars, watch_ui, timeVars, queueVars, callerVars, pcUI, pumpVars,
                   server_socket, running, client_socket, closed, client_connected, request,
                   responses, nConn, historyVars>>

\* tcp_server_start, after recv() has returned <= 0, going back to accept()
\* without closing the socket.
PcAfterDisconnectAccept == "accept"

\* tcp_server_start leaves the receive loop for close() when recv() has
\* returned <= 0.
PcAfterDisconnect == "close"

\* recv() returns <= 0: the client went away. Clients end the line they
\* have begun before they close.
SrvDisconnect ==
    /\ pcNet = "recv"
    /\ partial = NoPartial
    /\ client_connected' = 0
    /\ pcNet' = PcAfterDisconnect
    /\ UNCHANGED <<registryVars, watch_ui, timeVars, queueVars, callerVars, pcUI, pumpVars,
                   server_socket, running, client_socket, closed, lines, request, responses, partial, sent, nLines, nConn,
                   historyVars>>

\* The strtok loop: leading white space is trimmed, an empty line is passed
\* over, the next line goes to process_command; after the last one the
\* server receives again.
SrvNextLine ==
    /\ pcNet = "lines"
    /\ IF Len(lines) = 0
       THEN /\ pcNet' = "recv"
            /\ UNCHANGED <<lines, request>>
       ELSE IF Len(Head(lines)) = 0
       THEN /\ lines' = Tail(lines)
            /\ UNCHANGED <<pcNet, request>>
       ELSE /\ request' = Head(lines)
            /\ lines' = Tail(lines)
            /\ pcNet' = "decode"
    /\ UNCHANGED <<registryVars, watch_ui, timeVars, queueVars, callerVars, pcUI, pumpVars,
                   server_socket, running, client_socket, closed, client_connected, responses,
                   partial, sent, nLines, nConn, historyVars>>

\* process_command: the request is parsed; an invalid one is answered at once.
SrvDecode ==
    /\ pcNet = "decode"
    /\ IF Decode(request) = "ok"
       THEN /\ pcNet' = "srv_call"
            /\ UNCHANGED responses
       ELSE /\ responses' =
                 Append(responses, ErrorResponse(request, Decode(request)))
            /\ pcNet' = PcAfterReject
    /\ UNCHANGED <<registryVars, watch_ui, timeVars, queueVars, callerVars, pcUI, pumpVars,
                   server_socket, running, client_socket, closed, client_connected, lines, request,
                   partial, sent, nLines, nConn, historyVars>>

\* process_command calls the handler itself ("direct calls for now"): the
\* handler runs on the thread that runs process_command.
SrvCall ==
    /\ pcNet = "srv_call"
    /\ calls' = Append(calls, [fn |-> ServerHandlerOf(request),
                               thread |-> "net", seq |-> 0,
                               args |-> HandlerArgs(request)])
    /\ watch_ui' = HandlerEffect(ServerHandlerOf(request),
                                 HandlerArgs(request))
    /\ pcNet' = "srv_handler"
    /\ UNCHANGED <<registryVars, timeVars, queueVars, callerVars, pcUI, pumpVars,
                   serverVars, pushCalls, pushed, completions>>

\* The handler returns and the response is written to the socket.
SrvRespond(env) ==
    /\ pcNet = "srv_handler"
    /\ responses' = Append(responses, ResponseOf(request, env))
    /\ pcNet' = "lines"
    /\ UNCHANGED <<registryVars, watch_ui, timeVars, queueVars, callerVars, pcUI, pumpVars,
                   server_socket, running, client_socket, closed, client_connected, lines, request,
                   partial, sent, nLines, nConn, historyVars>>

\* close(client_socket); back to accept.
SrvClose ==
    /\ pcNet = "close"
    /\ closed' = closed \cup {client_socket}
    /\ client_socket' = INVALID_SOCKET
    /\ client_connected' = 0
    /\ pcNet' = "accept"
    /\ UNCHANGED <<registryVars, watch_ui, timeVars, queueVars, callerVars, pcUI, pumpVars,
                   server_socket, running, lines, request, responses, partial, sent, nLines, nConn,
                   historyVars>>

\* ---------------------------------------------- the program specification

\* The lines that also come two to a recv().
PairLines ==
    {Obj(<<KV("cmd", Str("click")), KV("id", Str("btn_heart"))>>),
     Obj(<<KV("cmd", Str("click"))>>),
     <<>>}

\* What one recv() brings: one or two lines.
Chunks ==
    {<<l>> : l \in RequestLines}
    \cup {<<l1, l2>> : l1 \in PairLines, l2 \in PairLines}

Init ==
    /\ InitShared
    /\ pcNet = "accept"

\* The main loop's steps are those of QueueSpec; the queue stays empty here
\* (QueueStaysEmpty), so the pump never gets past its while test.
Next ==
    \/ SrvAccept
    \/ \E chunk \in Chunks \cup {<<>>}, cut \in {0, MaxCut} :
          SrvRecv(chunk, cut)
    \/ SrvDisconnect
    \/ SrvNextLine
    \/ SrvDecode
    \/ SrvCall
    \/ \E env \in Envs : SrvRespond(env)
    \/ SrvClose
    \/ MainTimerHandler
    \/ PumpEnter
    \/ PumpWhile

Spec == Init /\ [][Next]_vars

\* ------------------------------------------------- the codec specification

\* process_command on its own: one client, every recv() brings one whole
\* line, drawn from a wider set of requests than in Spec, and the
\* application changes a label in between.
CodecLines ==
    {Obj(<<KV("cmd", Str("click")), KV("id", Str("btn_heart"))>>),
     Obj(<<KV("cmd", Str("click")), KV("id", Str("nope"))>>),
     Obj(<<KV("cmd", Str("click"))>>),
     Obj(<<KV("cmd", Str("longpress")), KV("id", Str("btn_heart"))>>),
     Obj(<<KV("cmd", Str("longpress")), KV("id", Str("lbl_battery")),
           KV("ms", Num(0))>>),
     Obj(<<KV("cmd", Str("longpress")), KV("id", Str("lbl_battery")),
           KV("ms", Num(500))>>),
     Obj(<<KV("cmd", Str("longpress")), KV("id", Str("nope")),
           KV("ms", Str("500"))>>),
     Obj(<<KV("cmd", Str("wait"))>>),
     Obj(<<KV("cmd", Str("wait")), KV("ms", Num(0))>>),
     Obj(<<KV("cmd", Str("wait")), KV("ms", Num(250))>>),
     Obj(<<KV("cmd", Str("wait")), KV("ms", Neg(5))>>),
     Obj(<<KV("cmd", Str("get_state")), KV("id", Str("btn_heart"))>>),
     Obj(<<KV("cmd", Str("get_state")), KV("id", Str("lbl_battery"))>>),
     Obj(<<KV("cmd", Str("get_state")), KV("id", Str("nope"))>>),
     Obj(<<KV("cmd", Str("set_text")), KV("id", Str("lbl_battery")),
           KV("text", Str("text255"))>>),
     Obj(<<KV("cmd", Str("set_text")), KV("id", Str("nope")),
           KV("text", Str("hello"))>>),
     Obj(<<KV("cmd", Str("set_text")), KV("id", Str("lbl_battery"))>>),
     Obj(<<KV("cmd", Str("swipe")), KV("x1", Num(200)), KV("y1", Num(10)),
           KV("x2", Num(10)), KV("y2", Num(10))>>),
     Obj(<<KV("cmd", Str("swipe")), KV("x1", Num(10)), KV("y1", Num(10)),
           KV("x2", Neg(5)), KV("y2", Num(10))>>),
     Obj(<<KV("cmd", Str("key")), KV("code", Num(13))>>),
     Obj(<<KV("cmd", Str("key"))>>),
     Obj(<<KV("cmd", Str("screenshot"))>>),
     Obj(<<KV("cmd", Str("click_at")), KV("x", Num(10)), KV("y", Num(10))>>),
     Obj(<<KV("cmd", Str("mouse_move")), KV("x", Num(10)), KV("y", Num(10))>>),
     Obj(<<KV("cmd", Str("drag")), KV("x1", Num(10)), KV("y1", Num(10)),
           KV("x2", Num(200)), KV("y2", Num(10))>>),
     Obj(<<KV("cmd", Str("bogus"))>>),
     Obj(<<KV("id", Str("btn_heart"))>>),
     Obj(<<KV("cmd", Num(7))>>)}

\* Texts an application gives a label it has registered: the one
\* ui_watch_update writes to the battery label, and one of 600 bytes, longer
\* than any label of the watch UI; the harness registers whatever label the
\* application hands to reg_widget and puts no limit on its text.
AppTexts == {"Battery 85%", "text600"}

\* The application sets the text of a label (lv_label_set_text).
AppSetText(text) ==
    /\ watch_ui.text["lbl_battery_obj"] # text
    /\ watch_ui' = [watch_ui EXCEPT !.text["lbl_battery_obj"] = text]
    /\ UNCHANGED <<registryVars, timeVars, queueVars, pcNet, callerVars, pcUI, pumpVars,
                   serverVars, historyVars>>

CodecNext ==
    \/ SrvAccept
    \/ \E line \in CodecLines : SrvRecv(<<line>>, 0)
    \/ SrvNextLine
    \/ SrvDecode
    \/ SrvCall
    \/ \E env \in Envs : SrvRespond(env)
    \/ \E text \in AppTexts : AppSetText(text)

CodecSpec == Init /\ [][CodecNext]_vars

\* ------------------------------------------- the flat-request specification

\* process_command on flat requests: objects with distinct keys whose values
\* are strings or unsigned integers, "cmd" written first, in the middle or
\* last, some of them lacking a key their kind requires.
FlatLines ==
    {Obj(<<KV("cmd", Str("click")), KV("id", Str("btn_heart"))>>),
     Obj(<<KV("id", Str("btn_heart")), KV("cmd", Str("get_state"))>>),
     Obj(<<KV("ms", Num(500)), KV("id", Str("lbl_battery")),
           KV("cmd", Str("longpress"))>>),
     Obj(<<KV("ms", Num(250)), KV("cmd", Str("wait"))>>),
     Obj(<<KV("id", Str("lbl_battery")), KV("cmd", Str("set_text")),
           KV("text", Str("hello"))>>),
     Obj(<<KV("cmd", Str("set_text")), KV("text", Str("cmd"))>>),
     Obj(<<KV("x1", Num(200)), KV("y1", Num(10)), KV("cmd", Str("swipe")),
           KV("x2", Num(10)), KV("y2", Num(10))>>),
     Obj(<<KV("code", Num(13)), KV("cmd", Str("key"))>>),
     Obj(<<KV("y", Num(10)), KV("cmd", Str("click_at"))>>),
     Obj(<<KV("id", Str("btn_heart")), KV("ms", Num(100))>>),
     Obj(<<KV("text", Str("wait")), KV("cmd", Str("bogus"))>>)}

FlatNext ==
    \/ SrvAccept
    \/ \E line \in FlatLines : SrvRecv(<<line>>, 0)
    \/ SrvNextLine
    \/ SrvDecode
    \/ SrvCall
    \/ \E env \in Envs : SrvRespond(env)

FlatSpec == Init /\ [][FlatNext]_vars

\* ------------------------------------------- the fair server specification

\* Requests that fail, each in its own way (no "cmd", an id the registry does
\* not hold, a screenshot when the capture fails, an unknown kind), and one
\* that succeeds.
FailLines ==
    {Obj(<<KV("id", Str("btn_heart"))>>),
     Obj(<<KV("cmd", Str("click")), KV("id", Str("nope"))>>),
     Obj(<<KV("cmd", Str("screenshot"))>>),
     Obj(<<KV("cmd", Str("bogus"))>>),
     Obj(<<KV("cmd", Str("wait"))>>)}

\* What one recv() brings: one or two whole lines.
FailChunks ==
    {<<l>> : l \in FailLines} \cup {<<l1, l2>> : l1 \in FailLines, l2 \in FailLines}

ServerNext ==
    \/ SrvAccept
    \/ \E chunk \in FailChunks : SrvRecv(chunk, 0)
    \/ SrvDisconnect
    \/ SrvNextLine
    \/ SrvDecode
    \/ SrvCall
    \/ \E env \in Envs : SrvRespond(env)
    \/ SrvClose

\* The server thread is never held up in its own steps: the strtok loop,
\* process_command, the handlers and close() all return. What clients do
\* (connect, send, go away) is left to them.
FairServerSpec ==
    /\ Init
    /\ [][ServerNext]_vars
    /\ WF_vars(SrvNextLine)
    /\ WF_vars(SrvDecode)
    /\ WF_vars(SrvCall)
    /\ WF_vars(\E env \in Envs : SrvRespond(env))
    /\ WF_vars(SrvClose)


\* ------------------------------------------------ the swipe specification

Swipe(x1, y1, x2, y2) ==
    Obj(<<KV("cmd", Str("swipe")), KV("x1", Num(x1)), KV("y1", Num(y1)),
          KV("x2", Num(x2)), KV("y2", Num(y2))>>)

\* Swipes to the left and to the right, longer and shorter than 50 pixels
\* and of exactly 50, steeper and flatter than the diagonal and along it,
\* a swipe without its last coordinate, and the click that opens the
\* heart-rate screen.
SwipeLines ==
    {Swipe(200, 10, 10, 10), Swipe(10, 10, 200, 10),
     Swipe(100, 10, 50, 10), Swipe(50, 10, 100, 10),
     Swipe(100, 10, 49, 10), Swipe(49, 10, 100, 10),
     Swipe(10, 200, 100, 10), Swipe(100, 200, 10, 10),
     Swipe(100, 10, 10, 100), Swipe(10, 10, 10, 200),
     Swipe(10, 10, 10, 10),
     Obj(<<KV("cmd", Str("swipe")), KV("x1", Num(200)), KV("y1", Num(10)),
           KV("x2", Num(10))>>),
     Obj(<<KV("cmd", Str("click")), KV("id", Str("btn_heart"))>>)}

SwipeNext ==
    \/ SrvAccept
    \/ \E line \in SwipeLines : SrvRecv(<<line>>, 0)
    \/ SrvNextLine
    \/ SrvDecode
    \/ SrvCall
    \/ \E env \in Envs : SrvRespond(env)

SwipeSpec == Init /\ [][SwipeNext]_vars

\* ------------------------------------------------ the watch specification

\* Widgets ui_watch_create registers, in the order the claims need them;
\* the registry of the model holds the first MAX_WIDGETS of them.
WatchWidgets ==
    <<[id |-> "btn_heart", obj |-> "heart_area_obj", active |-> TRUE],
      [id |-> "hr_measure_area", obj |-> "hr_measure_area_obj",
       active |-> TRUE],
      [id |-> "hr_screen", obj |-> "hr_bg_obj", active |-> TRUE],
      [id |-> "btn_activity", obj |-> "btn_activity_obj", active |-> TRUE]>>

WatchRegistrySize ==
    IF MAX_WIDGETS < Len(WatchWidgets) THEN MAX_WIDGETS ELSE Len(WatchWidgets)

WatchRegistry ==
    [i \in 1 .. MAX_WIDGETS |->
        IF i <= WatchRegistrySize THEN WatchWidgets[i] ELSE ZeroEntry]

Click(id) == Obj(<<KV("cmd", Str("click")), KV("id", Str(id))>>)

Longpress(id) == Obj(<<KV("cmd", Str("longpress")), KV("id", Str(id))>>)

\* The requests of WatchSpec: the clicks and long presses test_click and
\* test_longpress know by name, and a swipe to either side.
WatchLines ==
    {Click("btn_heart"), Click("hr_screen"), Click("btn_activity"),
     Longpress("btn_heart"), Longpress("hr_measure_area"),
     Swipe(200, 10, 10, 10), Swipe(10, 10, 200, 10)}

\* The state after start-up, with the server thread between two requests.
WatchInit ==
    /\ widget_registry = WatchRegistry
    /\ registry_size = WatchRegistrySize
    /\ regCall = [op |-> "none", id |-> "NULL", obj |-> "NULL", ret |-> TEST_OK]
    /\ lastReg = [id \in QueryIds |-> "NULL"]
    /\ cleaned = FALSE
    /\ InitRest
    /\ pcNet = "idle"

\* process_command has read a request that names a handler and is about to
\* call it.
NetRequest(line) ==
    /\ pcNet = "idle"
    /\ Decode(line) = "ok"
    /\ request' = line
    /\ pcNet' = "net_call"
    /\ UNCHANGED <<registryVars, watch_ui, timeVars, queueVars, callerVars,
                   pcUI, pumpVars, server_socket, running, client_socket, closed, client_connected,
                   lines, responses, partial, sent, nLines, nConn,
                   historyVars>>

\* The request is a long press of hr_measure_area that test_longpress finds
\* and simulate_hr_measurement does not ignore.
StartsMeasurement(line) ==
    /\ ServerHandlerOf(line) = "test_longpress"
    /\ HandlerArgs(line).id = "hr_measure_area"
    /\ find_widget("hr_measure_area") # "NULL"
    /\ watch_ui.current_screen = "SCREEN_HEART_RATE"

\* The handler runs on the server thread. simulate_hr_measurement is taken
\* one store at a time: here it has set the two labels.
NetHandler ==
    /\ pcNet = "net_call"
    /\ IF StartsMeasurement(request)
       THEN /\ watch_ui' = MeasureTexts(watch_ui)
            /\ pcNet' = "hr_flag"
       ELSE /\ watch_ui' = HandlerEffect(ServerHandlerOf(request),
                                         HandlerArgs(request))
            /\ pcNet' = "idle"
    /\ UNCHANGED <<registryVars, timeVars, queueVars, callerVars, pcUI,
                   pumpVars, serverVars, historyVars>>

\* watch_ui.is_measuring_heart = 1;
MeasureSetFlag ==
    /\ pcNet = "hr_flag"
    /\ watch_ui' = MeasureFlag(watch_ui)
    /\ measureBegan' = clock
    /\ pcNet' = "hr_start"
    /\ UNCHANGED <<registryVars, clock, now, queueVars, callerVars, pcUI,
                   pumpVars, serverVars, historyVars>>

\* watch_ui.measurement_start = time(NULL);  and the handler returns.
MeasureSetStart ==
    /\ pcNet = "hr_start"
    /\ watch_ui' = MeasureStart(watch_ui, clock)
    /\ pcNet' = "idle"
    /\ UNCHANGED <<registryVars, timeVars, queueVars, callerVars, pcUI,
                   pumpVars, serverVars, historyVars>>

\* lv_timer_handler finds the timer of ui_watch_update due: the function
\* reads the clock and writes the time, date and battery labels.
UpdateEnter ==
    /\ pcUI = "loop"
    /\ now' = clock
    /\ watch_ui' = [watch_ui EXCEPT !.text["lbl_battery_obj"] = "Battery 85%"]
    /\ pcUI' = "upd_measure"
    /\ UNCHANGED <<registryVars, clock, measureBegan, queueVars, pcNet,
                   callerVars, pumpVars, serverVars, historyVars>>

\* ui_watch_update, lines 645-657: is_measuring_heart && elapsed >= 3, the
\* label objects being there.
MeasurementDone(ui, t) ==
    ui.is_measuring_heart = 1 /\ t - ui.measurement_start >= 3

\* ui_watch_update from line 645 on: the measurement is completed with the
\* heart rate n when it is done, and the label of the heart button is
\* rewritten.
UpdateEffect(ui, t, n) ==
    LET m == IF MeasurementDone(ui, t)
             THEN [ui EXCEPT !.heart_rate = n,
                             !.text["lbl_hr_value_obj"] = BpmText(n),
                             !.text["lbl_hr_instruction_obj"] =
                                 "Tap to go back",
                             !.is_measuring_heart = 0]
             ELSE ui
    IN  [m EXCEPT !.text["lbl_heart_bpm_obj"] = HeartText(m.heart_rate)]

\* The rest of ui_watch_update; n is 65 + (rand() % 30). The function
\* returns, its local is gone, lv_timer_handler returns and the main loop
\* goes on to the pump.
UpdateMeasure(n) ==
    /\ pcUI = "upd_measure"
    /\ watch_ui' = UpdateEffect(watch_ui, now, n)
    /\ now' = 0
    /\ measureBegan' = IF MeasurementDone(watch_ui, now) THEN 0
                       ELSE measureBegan
    /\ pcUI' = "pump"
    /\ UNCHANGED <<registryVars, clock, queueVars, pcNet, callerVars,
                   pumpVars, serverVars, historyVars>>

\* A second passes.
Tick ==
    /\ clock < ClockStart + MaxTick
    /\ clock' = clock + 1
    /\ UNCHANGED <<registryVars, watch_ui, now, measureBegan, queueVars,
                   pcNet, callerVars, pcUI, pumpVars, serverVars,
                   historyVars>>

WatchNext ==
    \/ \E line \in WatchLines : NetRequest(line)
    \/ NetHandler
    \/ MeasureSetFlag
    \/ MeasureSetStart
    \/ UpdateEnter
    \/ \E n \in HeartRates \ {72} : UpdateMeasure(n)
    \/ MainTimerHandler
    \/ PumpEnter
    \/ PumpWhile
    \/ Tick

WatchSpec == WatchInit /\ [][WatchNext]_vars

\* ------------------------------------- the specification of odd requests

\* The line without its last token: a request cut off before the closing
\* brace, sent as a line.
Unclosed(line) == SubSeq(line, 1, Len(line) - 1)

\* Requests cut off before the closing brace and requests with numbers
\* beyond INT_MAX (2^32 + 100 and 2^31), next to requests that are neither.
EdgeLines ==
    {Click("btn_heart"),
     Unclosed(Click("btn_heart")),
     Unclosed(Obj(<<KV("cmd", Str("click"))>>)),
     Unclosed(Obj(<<KV("cmd", Str("wait"))>>)),
     Unclosed(Swipe(200, 10, 10, 10)),
     Obj(<<KV("cmd", Str("wait")), KV("ms", Num(250))>>),
     Obj(<<KV("cmd", Str("wait")), KV("ms", Big("4294967396"))>>),
     Obj(<<KV("cmd", Str("longpress")), KV("id", Str("btn_heart")),
           KV("ms", Big("2147483648"))>>),
     Obj(<<KV("cmd", Str("key")), KV("code", Big("4294967396"))>>),
     Obj(<<KV("cmd", Str("key")), KV("code", Num(13))>>),
     Obj(<<KV("cmd", Str("swipe")), KV("x1", Big("4294967396")),
           KV("y1", Num(10)), KV("x2", Num(10)), KV("y2", Num(10))>>),
     Obj(<<KV("cmd", Str("swipe")), KV("x1", Num(200)), KV("y1", Num(10)),
           KV("x2", Big("2147483648")), KV("y2", Num(10))>>)}

\* The keys whose values process_command reads with parse_int for a
\* command, in the order it reads them.
IntKeys(c) ==
    CASE c \in {"swipe", "drag"} -> <<"x1", "y1", "x2", "y2">>
      [] c = "key" -> <<"code">>
      [] c \in {"longpress", "wait"} -> <<"ms">>
      [] c \in {"click_at", "mouse_move"} -> <<"x", "y">>
      [] OTHER -> <<>>

\* process_command gets as far as a parse_int whose loop overflows: the
\* reads before it succeeded, and the value of the key is a run of digits
\* beyond INT_MAX.
ParsesOverflow(line) ==
    LET c == parse_string(line, "cmd")
        keys == IntKeys(c)
    IN  /\ c = "longpress" => parse_string(line, "id") # "none"
        /\ \E i \in DOMAIN keys :
              /\ \A j \in 1 .. i - 1 : parse_int(line, keys[j]) >= 0
              /\ find_key(line, keys[i]) \in 1 .. Len(line)
              /\ line[find_key(line, keys[i])].k = "num"
              /\ Overflows(DigitsOf(line[find_key(line, keys[i])]))

\* Signed overflow is undefined: a build with trapping arithmetic ends the
\* process inside parse_int, where a build with wrapping arithmetic goes on
\* with the wrapped value (SrvDecode).
SrvDecodeTrap ==
    /\ pcNet = "decode"
    /\ ParsesOverflow(request)
    /\ pcNet' = "aborted"
    /\ UNCHANGED <<registryVars, watch_ui, timeVars, queueVars, callerVars,
                   pcUI, pumpVars, serverVars, historyVars>>

EdgeNext ==
    \/ SrvAccept
    \/ \E line \in EdgeLines : SrvRecv(<<line>>, 0)
    \/ SrvNextLine
    \/ SrvDecode
    \/ SrvDecodeTrap
    \/ SrvCall
    \/ \E env \in Envs : SrvRespond(env)

EdgeSpec == Init /\ [][EdgeNext]_vars

\* ------------------------------------------- the shutdown specification

\* The program after start-up, or at the point where main finds that the
\* server thread could not be created.
ShutdownInit ==
    /\ InitShared
    /\ pcNet \in {"accept", "not_created"}

\* main: pthread_create failed; it goes on to tcp_server_cleanup.
CreateFailed ==
    /\ pcNet = "not_created"
    /\ pcUI = "loop"
    /\ pcUI' = "cleanup"
    /\ UNCHANGED <<registryVars, watch_ui, timeVars, queueVars, pcNet,
                   callerVars, pumpVars, serverVars, historyVars>>

\* main: the signal handler has cleared main's running flag and the main
\* loop ends.
MainLoopEnds ==
    /\ pcNet # "not_created"
    /\ pcUI = "loop"
    /\ pcUI' = "cancel"
    /\ UNCHANGED <<registryVars, watch_ui, timeVars, queueVars, pcNet,
                   callerVars, pumpVars, serverVars, historyVars>>

\* main: pthread_cancel and pthread_join. The server thread ends where it
\* is: blocked in accept() or recv(), or at the next printf or send of the
\* request it is working on.
CancelServer ==
    /\ pcUI = "cancel"
    /\ pcNet' = "cancelled"
    /\ pcUI' = "cleanup"
    /\ UNCHANGED <<registryVars, watch_ui, timeVars, queueVars, callerVars,
                   pumpVars, serverVars, historyVars>>

\* tcp_server_cleanup
TcpServerCleanup ==
    /\ pcUI = "cleanup"
    /\ running' = 0
    /\ client_socket' = INVALID_SOCKET
    /\ server_socket' = INVALID_SOCKET
    /\ closed' = closed
                  \cup (IF client_socket # INVALID_SOCKET
                        THEN {client_socket} ELSE {})
                  \cup (IF server_socket # INVALID_SOCKET
                        THEN {server_socket} ELSE {})
    /\ client_connected' = 0
    /\ pcUI' = "exit"
    /\ UNCHANGED <<registryVars, watch_ui, timeVars, queueVars, pcNet,
                   callerVars, pumpVars, lines, request, responses, partial,
                   sent, nLines, nConn, historyVars>>

ShutdownNext ==
    \/ SrvAccept
    \/ \E line \in {Click("btn_heart"), Click("nope")} : SrvRecv(<<line>>, 0)
    \/ SrvDisconnect
    \/ SrvNextLine
    \/ SrvDecode
    \/ SrvCall
    \/ \E env \in Envs : SrvRespond(env)
    \/ SrvClose
    \/ CreateFailed
    \/ MainLoopEnds
    \/ CancelServer
    \/ TcpServerCleanup

ShutdownSpec == ShutdownInit /\ [][ShutdownNext]_vars

\* Nothing in tcp_server.c or main.c calls command_queue_push: in Spec the
\* queue is never written and the pump always returns from its while test.
QueueStaysEmpty ==
    /\ queue_size = 0
    /\ pushed = 0
    /\ pcUI \in {"loop", "pump", "pa_while"}


\* ------------------------------------------------------------------ claims

Slots == 0 .. MAX_COMMAND_QUEUE - 1

Completed == {completions[k] : k \in DOMAIN completions}

InPush == {"push_lock", "push_check", "push_copy", "push_reset", "push_unlock"}

\* C1: no widget-touching handler (and so no registry lookup) ever runs on
\* the network thread; they run only on the UI thread.
C1_HandlersOnlyOnUIThread ==
    \A k \in DOMAIN calls :
        calls[k].fn \in WidgetTouching => calls[k].thread = "ui"

\* C2: the response to a request that decoded is written only after the UI
\* pump has executed the queued command and set its completion flag: every
\* such response has a completion before it.
C2_ResponseAfterQueuedCompletion ==
    Cardinality({k \in DOMAIN responses : responses[k].decoded})
        <= Len(completions)

\* C3: the k-th command executed is the k-th command pushed, and none is
\* skipped or executed twice: every pushed command has been executed except
\* those still counted in the queue.
C3_ExecutedInPushOrder ==
    /\ \A k \in DOMAIN calls : calls[k].seq = k
    /\ Len(calls) = pushed - queue_size
                    + (IF pcUI \in {"pa_handler", "pa_complete", "pa_lock2",
                                    "pa_advance"} THEN 1 ELSE 0)

C3_Witness == Len(calls) > MAX_COMMAND_QUEUE

\* C4: a push that finds the queue full returns QueueFull in its next step,
\* without waiting, releases the lock and leaves head, tail, size and every
\* slot as they were.
C4_PushWhenFullRejects ==
    [][(pcNet = "push_check" /\ queue_size >= MAX_COMMAND_QUEUE
          /\ pcNet' # pcNet)
        => (/\ pushRet' = TEST_ERROR_QUEUE_FULL
            /\ pcNet' = "idle"
            /\ queue_mutex' = "free"
            /\ UNCHANGED <<command_queue, queue_head, queue_tail,
                           queue_size>>)]_vars

C4_Witness ==
    /\ pushRet = TEST_ERROR_QUEUE_FULL
    /\ queue_size = MAX_COMMAND_QUEUE

\* C5: 0 <= queue_size <= capacity in every reachable state.
C5_SizeWithinCapacity == 0 <= queue_size /\ queue_size <= MAX_COMMAND_QUEUE

C5_Witness == queue_size = MAX_COMMAND_QUEUE /\ pcUI = "pa_handler"

\* C6: a caller that polls the completion flag of the command it pushed
\* observes completed = true once the UI pump has completed that command.
C6_PollSeesCompletion == (lastPoll.made /\ lastPoll.done) => lastPoll.saw

\* C7: the completion flag of a pushed command goes from false to true
\* exactly once, in the pump's step after the handler has returned, and a
\* command leaves the queue only with its flag set.
C7_CompletedSetOnceByPump ==
    [][/\ \A i \in Slots :
            (/\ command_queue[i].seq # 0
             /\ command_queue'[i].seq = command_queue[i].seq
             /\ ~command_queue[i].completed
             /\ command_queue'[i].completed)
            => (/\ pcUI = "pa_complete" /\ pcUI' = "pa_lock2"
                /\ cmd = i
                /\ \E k \in DOMAIN calls :
                      calls[k].seq = command_queue[i].seq
                /\ command_queue[i].seq \notin Completed
                /\ completions' = Append(completions, command_queue[i].seq))
       /\ completions' # completions
            => (/\ ~command_queue[cmd].completed
                /\ command_queue'[cmd].completed)
       /\ queue_head' # queue_head
            => (/\ command_queue[queue_head].completed
                /\ command_queue[queue_head].seq \in Completed)]_vars

C7_Witness ==
    /\ Len(completions) > MAX_COMMAND_QUEUE
    /\ pcUI = "pa_lock2"

\* C8: the UI thread holds the queue mutex only in its two short critical
\* sections, never from the handler call to the handler's return, so a push
\* that wants the lock while a handler runs finds it free.
C8_NoLockAcrossHandler ==
    /\ queue_mutex = "ui" <=> pcUI \in {"pa_peek", "pa_advance"}
    /\ (pcUI \in {"pa_call", "pa_handler"} /\ pcNet = "push_lock")
         => queue_mutex = "free"

C8_Witness == pcUI = "pa_handler" /\ queue_mutex = "net"

\* C9: completed is set in the critical section that advances head and
\* decrements size, so no command counted in the queue reads as completed.
C9_CompletedOnlyWhenDequeued ==
    \A i \in Occupied : ~command_queue[i].completed

\* C10: a successful push leaves in the tail slot the caller's command with
\* the result slot reset, whatever the caller's result fields held; push
\* does not write the caller's command, and what the caller writes to its
\* command afterwards does not reach the queue.
C10_PushStoresResetCopy ==
    [][/\ (pcNet = "push_reset" /\ pcNet' = "push_unlock")
            => command_queue'[queue_tail] =
                 [seq |-> pushed', type |-> callerCmd.type,
                  widget_id |-> callerCmd.widget_id,
                  response_text |-> "NULL", response_data |-> "NULL",
                  response_len |-> 0, result |-> TEST_OK,
                  completed |-> FALSE]
       /\ pcNet \in InPush => callerCmd' = callerCmd
       /\ callerCmd' # callerCmd /\ pcNet \notin {"idle"}
            => command_queue' = command_queue]_vars

C10_Witness ==
    /\ callerCmd.widget_id = "scribbled"
    /\ callerCmd.completed
    /\ queue_size > 0


\* C11: a call of command_queue_process_all returns only from its while test
\* with the queue empty (size = 0, head = tail), so every command that was
\* in the queue when it was called has been executed; it returns the number
\* of commands it executed; and, pushes being finite, every call returns.
C11_PumpDrainsAll ==
    /\ [][(pcUI = "pa_while" /\ pcUI' = "loop")
            => (/\ queue_size = 0
                /\ queue_head = queue_tail
                /\ Len(calls) >= entry.pushed
                /\ processed = Len(calls) - entry.calls)]_vars
    /\ [][pcUI # "loop" /\ pcUI' = "loop" => pcUI = "pa_while"]_vars
    /\ (pcUI = "pa_while") ~> (pcUI = "loop")

\* One call has executed a backlog of a full queue and is about to return.
C11_Witness ==
    /\ pcUI = "pa_while"
    /\ queue_size = 0
    /\ processed = MAX_COMMAND_QUEUE
    /\ entry.pushed - entry.calls = MAX_COMMAND_QUEUE

\* C12: every command pushed successfully is eventually marked completed by
\* the pump after its handler ran, and a caller that stops waiting changes
\* nothing in the queue.
C12_PushedEventuallyCompleted ==
    /\ \A k \in 1 .. MaxPush :
          (pushed >= k) ~> (k \in Completed /\ \E j \in DOMAIN calls :
                                                  calls[j].seq = k)
    /\ [][(pcNet = "poll" /\ pcNet' = "idle")
            => UNCHANGED <<queueVars, pcUI, pumpVars>>]_vars

\* The caller has given up on a command and the pump completed it afterwards.
C12_Witness ==
    /\ pcNet = "idle"
    /\ pushRet = TEST_OK
    /\ ~lastPoll.made
    /\ pushed \in Completed

\* Registry claims, checked under RegistrySpec.

StoredIds == {widget_registry[i].id : i \in 1 .. registry_size}

\* Some active entry's stored id is id, as strcmp sees it.
Registered(id) == DupFrom(1, id) # 0

\* C13: after any sequence of reg_widget calls, find_widget(id) returns the
\* handle of the most recent successful reg_widget(id, .) for every id, and
\* NULL for every id never registered.
C13_FindReturnsLastRegistered ==
    \A id \in QueryIds : find_widget(id) = lastReg[id]

\* C14: reg_widget of an id that is already registered, with a non-null
\* handle, returns TEST_OK and replaces the handle without changing the
\* number of entries, whatever the number of entries.
C14_ReRegisterAlwaysReplaces ==
    [][\A id \in RegIds :
          (/\ regCall'.op = "reg" /\ regCall'.id = id /\ regCall'.obj # "NULL"
           /\ Registered(id))
          => (/\ regCall'.ret = TEST_OK
              /\ find_widget(id)' = regCall'.obj
              /\ registry_size' = registry_size)]_vars

\* C15: reg_widget of a new id succeeds while fewer than MAX_WIDGETS entries
\* are present; with MAX_WIDGETS entries present it fails with a result that
\* is neither TEST_OK nor TEST_ERROR_INVALID_PARAM and changes nothing.
C15_FullIsDistinctResult ==
    [][(/\ regCall'.op = "reg"
        /\ regCall'.id # "NULL" /\ regCall'.obj # "NULL"
        /\ ~Registered(regCall'.id))
       => IF registry_size < MAX_WIDGETS
          THEN regCall'.ret = TEST_OK /\ registry_size' = registry_size + 1
          ELSE /\ regCall'.ret \notin {TEST_OK, TEST_ERROR_INVALID_PARAM}
               /\ UNCHANGED <<widget_registry, registry_size>>]_vars

\* C16: no two active entries hold the same stored id.
C16_StoredIdsUnique ==
    \A i, j \in 1 .. registry_size :
        (/\ i # j
         /\ widget_registry[i].active
         /\ widget_registry[j].active)
        => widget_registry[i].id # widget_registry[j].id

\* C17: after cleanup_registry every entry is inactive with a zeroed id and
\* find_widget returns NULL for every id; from there every reg_widget of a
\* non-null id and handle succeeds until MAX_WIDGETS entries are present.
C17_CleanupEmptiesRegistry ==
    /\ [][regCall'.op = "cleanup"
            => (/\ \A i \in 1 .. MAX_WIDGETS :
                      /\ ~widget_registry'[i].active
                      /\ widget_registry'[i].id = ""
                /\ \A id \in QueryIds : find_widget(id)' = "NULL"
                /\ registry_size' = 0)]_vars
    /\ [][(/\ cleaned
           /\ regCall'.op = "reg"
           /\ regCall'.id # "NULL" /\ regCall'.obj # "NULL"
           /\ registry_size < MAX_WIDGETS)
          => regCall'.ret = TEST_OK]_vars
    /\ [](cleaned => \A i \in registry_size + 1 .. MAX_WIDGETS :
                        widget_registry[i] = ZeroEntry)

\* A full registry was cleaned and has been filled to capacity again with
\* ids that differ from each other.
C17_Witness ==
    /\ cleaned
    /\ regCall.op = "reg" /\ regCall.ret = TEST_OK
    /\ registry_size = MAX_WIDGETS
    /\ Cardinality(StoredIds) = MAX_WIDGETS

\* Server claims, checked under Spec.

\* The positions in line of the members named key: a string followed by a
\* colon, where a member starts.
MembersNamed(line, key) ==
    {i \in 2 .. Len(line) - 1 :
        /\ line[i] = Str(key)
        /\ line[i + 1].k = ":"
        /\ line[i - 1].k \in {"{", ","}}

\* line is an object with a member key whose value is of kind k.
HasMember(line, key, k) ==
    /\ Len(line) > 0
    /\ line[1].k = "{"
    /\ \E i \in MembersNamed(line, key) :
          i + 2 <= Len(line) /\ line[i + 2].k = k

\* The "cmd" member is missing or its value is not a string.
CmdMissingOrNotString(line) == ~HasMember(line, "cmd", "str")

\* A member in front of "cmd" has a value that is neither a string nor a
\* number.
BareWordBeforeCmd(line) ==
    \E i \in MembersNamed(line, "cmd") :
        \E j \in 1 .. i - 1 : line[j].k = "lit"

\* The string value of the "cmd" member.
CmdMember(line) ==
    LET i == CHOOSE i \in MembersNamed(line, "cmd") :
                 \A j \in MembersNamed(line, "cmd") : i <= j
    IN  line[i + 2].s

\* The reason the codec gives when a required key of the kind is missing,
\* of the wrong type or negative; "" when the kind has none.
ReasonOfKind(line) ==
    LET c == CmdMember(line)
    IN  IF /\ c \in {"click", "longpress", "get_state"}
           /\ ~HasMember(line, "id", "str")
        THEN "missing_id"
        ELSE IF /\ c = "set_text"
                /\ \E key \in {"id", "text"} : ~HasMember(line, key, "str")
        THEN "missing_parameters"
        ELSE IF /\ c = "swipe"
                /\ \E key \in {"x1", "y1", "x2", "y2"} :
                      ~HasMember(line, key, "num")
        THEN "invalid_coordinates"
        ELSE ""

\* C18: every newline-terminated line that is not empty after trimming is
\* answered by exactly one response (a screenshot: header and payload), in
\* the order of the lines; empty lines are not answered. Stated where the
\* server waits for more bytes and no line is half received.
C18_OneResponsePerLine ==
    (pcNet = "recv" /\ partial = NoPartial)
    => /\ Len(responses) = Len(sent)
       /\ \A i \in DOMAIN sent : responses[i].line = sent[i]

\* C19, as stated: the reason is invalid_json, with cmd "unknown", exactly
\* when the "cmd" key is missing or its value is not a string; a known kind
\* with a required key missing, mistyped or negative is answered with the
\* reason of the kind and the kind as cmd.
C19_InvalidJsonIffNoCmd ==
    \A i \in DOMAIN responses :
        LET r == responses[i]
        IN  /\ (r.error = "invalid_json") <=> CmdMissingOrNotString(r.line)
            /\ r.error = "invalid_json" => r.cmd = "unknown"
            /\ (~CmdMissingOrNotString(r.line) /\ ReasonOfKind(r.line) # "")
               => /\ r.status = "error"
                  /\ r.error = ReasonOfKind(r.line)
                  /\ r.cmd = CmdMember(r.line)

\* C19, amended: the reason is invalid_json, with cmd "unknown", exactly
\* when the scan for "cmd" fails: the "cmd" key is missing, its value is not
\* a string, or a member in front of it has a value that is neither a string
\* nor a number. Otherwise a known kind with a required key missing,
\* mistyped or negative is answered with the reason of the kind and the kind
\* as cmd.
C19_InvalidJsonIffScanFails ==
    \A i \in DOMAIN responses :
        LET r == responses[i]
            unreadable == \/ CmdMissingOrNotString(r.line)
                          \/ BareWordBeforeCmd(r.line)
        IN  /\ (r.error = "invalid_json") <=> unreadable
            /\ r.error = "invalid_json" => r.cmd = "unknown"
            /\ (~unreadable /\ ReasonOfKind(r.line) # "")
               => /\ r.status = "error"
                  /\ r.error = ReasonOfKind(r.line)
                  /\ r.cmd = CmdMember(r.line)

\* A request with a string "cmd" behind a bare word was answered invalid_json
\* and one with a negative coordinate invalid_coordinates.
C19_Witness ==
    /\ \E i \in DOMAIN responses :
          /\ responses[i].error = "invalid_json"
          /\ BareWordBeforeCmd(responses[i].line)
          /\ ~CmdMissingOrNotString(responses[i].line)
    /\ \E i \in DOMAIN responses :
          /\ responses[i].error = "invalid_coordinates"
          /\ responses[i].cmd = "swipe"

\* C20: a request rejected in parsing or validation calls no handler, pushes
\* nothing and leaves the registry and the queue as they were; all it does
\* is write its error response. Every handler call on the network thread
\* belongs to a request that decoded.
C20_RejectedRequestHasNoEffect ==
    /\ [][(pcNet = "decode" /\ responses' # responses)
            => /\ pcNet' = "lines"
               /\ Len(responses') = Len(responses) + 1
               /\ responses'[Len(responses')].status = "error"
               /\ responses'[Len(responses')].error \in
                     {"invalid_json", "missing_id", "missing_parameters",
                      "invalid_coordinates", "invalid_key_code",
                      "unknown_command"}
               /\ UNCHANGED <<widget_registry, registry_size, watch_ui,
                              queueVars, historyVars, pcUI, pumpVars>>]_vars
    /\ [](Cardinality({k \in DOMAIN calls : calls[k].thread = "net"})
            = Cardinality({k \in DOMAIN responses : responses[k].decoded})
              + (IF pcNet = "srv_handler" THEN 1 ELSE 0))

\* Two requests were rejected, for different reasons, and no handler has run.
C20_Witness ==
    /\ pcNet = "lines"
    /\ Len(responses) = 2
    /\ ~responses[1].decoded /\ ~responses[2].decoded
    /\ responses[1].error # responses[2].error
    /\ calls = <<>>

\* ------------------------------------------------ claims about the responses

\* The responses with "status":"error".
ErrorResponses == {i \in 1 .. Len(responses) : responses[i].status = "error"}

\* The error reasons the protocol description lists.
ListedReasons ==
    {"invalid_json", "missing_id", "invalid_coordinates", "missing_parameters",
     "widget_not_found", "unknown_command", "screenshot_failed", "swipe_failed",
     "key_event_failed", "click_failed"}

\* The error reasons process_command sends: the listed ones, and
\* "invalid_key_code" for a key request without a code, "mouse_move_failed"
\* and "drag_failed" for the failures of those two commands.
SentReasons == ListedReasons \cup {"invalid_key_code", "mouse_move_failed", "drag_failed"}

\* C21 as stated: the "error" member of every error response is one of the
\* ten listed reasons.
C21_ErrorReasonsAsListed ==
    \A i \in ErrorResponses : responses[i].error \in ListedReasons

\* C21, amended: the "error" member of every error response is one of the ten
\* listed reasons or one of invalid_key_code, mouse_move_failed, drag_failed.
C21_ErrorReasonsOfCode ==
    \A i \in ErrorResponses : responses[i].error \in SentReasons

\* A key request without a code has been answered, and so has a failed drag
\* or mouse move.
C21_Witness ==
    /\ \E i \in ErrorResponses : responses[i].error = "invalid_key_code"
    /\ \E i \in ErrorResponses :
          responses[i].error \in {"mouse_move_failed", "drag_failed"}

\* ---------------------------------------------------- claims about the codec

\* The number of members of a line of the shape { k:v, k:v, ... }.
MemberCount(line) == (Len(line) - 1) \div 4

\* The members of such a line, in the order they are written.
MembersOf(line) ==
    [i \in 1 .. MemberCount(line) |-> KV(line[4 * i - 2].s, line[4 * i])]

\* A flat object whose keys are distinct and whose values are double-quoted
\* strings or unsigned decimal integers.
IsFlatObject(line) ==
    /\ Len(line) >= 5
    /\ Len(line) = 4 * MemberCount(line) + 1
    /\ line[1] = LB
    /\ \A i \in 1 .. MemberCount(line) :
          /\ line[4 * i - 2].k = "str"
          /\ line[4 * i - 1] = COLON
          /\ line[4 * i].k \in {"str", "num"}
          /\ line[4 * i + 1] = IF i = MemberCount(line) THEN RB ELSE COMMA
    /\ \A i, j \in 1 .. MemberCount(line) :
          line[4 * i - 2].s = line[4 * j - 2].s => i = j

\* The line with its members in the order p, a permutation of their places.
Reordered(line, p) ==
    Obj([i \in 1 .. MemberCount(line) |-> MembersOf(line)[p[i]]])

\* What process_command makes of a line: the error it answers with or "ok",
\* the kind, the handler and the arguments it calls it with.
Outcome(line) ==
    [reason |-> Decode(line),
     cmd |-> IF Decode(line) = "invalid_json" THEN "unknown"
             ELSE parse_string(line, "cmd"),
     handler |-> IF Decode(line) = "ok" THEN ServerHandlerOf(line) ELSE "none",
     args |-> IF Decode(line) = "ok" THEN HandlerArgs(line) ELSE NoArgs]

\* C22: a flat request with distinct keys and string or unsigned integer
\* values decodes to the same kind and parameters, or to the same error, in
\* whatever order its members are written.
C22_MemberOrderIrrelevant ==
    (pcNet = "decode" /\ IsFlatObject(request)) =>
        \A p \in Permutations(1 .. MemberCount(request)) :
            Outcome(Reordered(request, p)) = Outcome(request)

\* A request of three members with a number among them and "cmd" written
\* last is being decoded, and it decodes.
C22_Witness ==
    /\ pcNet = "decode"
    /\ IsFlatObject(request)
    /\ MemberCount(request) = 3
    /\ MembersOf(request)[3].key = "cmd"
    /\ \E i \in 1 .. 3 : MembersOf(request)[i].val.k = "num"
    /\ Decode(request) = "ok"

\* The calls of test_longpress and test_wait process_command has made.
MsCalls ==
    {k \in 1 .. Len(calls) :
        /\ calls[k].thread = "net"
        /\ calls[k].fn \in {"test_longpress", "test_wait"}}

\* The request the k-th handler call of the server was made for: requests
\* are answered in the order they are called.
RequestOfCall(k) ==
    LET decoded == SelectSeq(responses, LAMBDA r : r.decoded)
    IN  IF k <= Len(decoded) THEN decoded[k].line ELSE request

\* The number written as the "ms" member of a line, -1 when there is none.
WrittenMs(line) ==
    IF \E i \in 1 .. Len(line) - 2 :
           line[i] = Str("ms") /\ line[i + 1] = COLON /\ line[i + 2].k = "num"
    THEN line[(CHOOSE i \in 1 .. Len(line) - 2 :
                  line[i] = Str("ms") /\ line[i + 1] = COLON
                  /\ line[i + 2].k = "num") + 2].n
    ELSE -1

\* C23: a longpress or wait runs with the default (1000 or 100) when "ms" is
\* absent or not an unsigned decimal integer, and with exactly the value
\* written when it is one, 0 included.
C23_MsAsWrittenOrDefault ==
    \A k \in MsCalls :
        LET written == WrittenMs(RequestOfCall(k))
            default == IF calls[k].fn = "test_longpress" THEN 1000 ELSE 100
        IN  calls[k].args.ms = IF written >= 0 THEN written ELSE default

\* The kinds of request that name a widget.
WidgetCmds == {"click", "longpress", "get_state", "set_text"}

\* The response that has just been written.
LastResponse == responses[Len(responses)]

ScreenshotResponses ==
    {i \in 1 .. Len(responses) : responses[i].payload}

\* C25: after the header of every successful screenshot exactly "len" bytes
\* of image are written to the connection, also when send() takes fewer
\* bytes than it is given.
C25_PayloadMatchesLen ==
    \A i \in ScreenshotResponses :
        responses[i].payload_bytes = responses[i].len

\* ------------------------------------------------ claims about connections

\* The connections accept() has returned and close() has not been called on.
OpenSockets == (1 .. nConn) \ closed

\* Where the server thread is while it works on the lines of a client.
Serving == {"lines", "decode", "srv_call", "srv_handler"}

\* C26: at most one client connection is open at any time; the server is
\* back at accept() only when every connection it accepted has been closed;
\* and whatever it processes or answers, it does for the one open
\* connection, the last it accepted, so the commands of two clients are
\* never interleaved.
C26_OneClientAtATime ==
    /\ Cardinality(OpenSockets) <= 1
    /\ OpenSockets = {client_socket} \cap (1 .. nConn)
    /\ pcNet = "accept" => OpenSockets = {} /\ client_connected = 0
    /\ pcNet \in Serving \cup {"recv"} =>
          /\ client_connected = 1
          /\ client_socket = nConn
          /\ OpenSockets = {nConn}

\* A second client is being answered after a first one was answered, went
\* away and had its socket closed.
C26_Witness ==
    /\ nConn = 2
    /\ closed = {1}
    /\ pcNet = "srv_handler"
    /\ Len(responses) > 0

\* Where the server thread is while process_command works on a request.
Processing == {"decode", "srv_call", "srv_handler"}

\* The lines the clients have sent, from their first byte to their newline.
WholeLines == {sent[i] : i \in 1 .. Len(sent)}

\* C27: what process_command works on and answers is always a whole line a
\* client sent, also when the line came in two recv() calls: the part that
\* came first waits for the rest and is not processed on its own.
C27_CutLineProcessedWhole ==
    /\ pcNet \in Processing => request \in WholeLines
    /\ \A i \in 1 .. Len(responses) : responses[i].line \in WholeLines

\* The step writes an error response.
ErrorWritten ==
    /\ Len(responses') = Len(responses) + 1
    /\ responses'[Len(responses')].status = "error"

\* C28: a command that fails (decode error, widget_not_found,
\* screenshot_failed, unknown_command) leaves the connection open and the
\* server in its line loop with the remaining lines untouched; every line
\* that has arrived is answered in the end, whatever failed before it; and
\* after a client has gone away the server closes the socket and is back at
\* accept().
C28_FailuresAreNotFatal ==
    /\ [][ErrorWritten =>
            /\ client_connected' = 1
            /\ client_socket' = client_socket
            /\ closed' = closed
            /\ lines' = lines
            /\ pcNet' = "lines"]_vars
    /\ \A n \in 1 .. MaxLines : (Len(sent) >= n) ~> (Len(responses) >= n)
    /\ (pcNet = "close") ~> (pcNet = "accept" /\ client_socket = INVALID_SOCKET)

\* On one connection a request was answered with an error and the one after
\* it with ok; the client went away and the next client has been accepted.
C28_Witness ==
    /\ Len(responses) = 2
    /\ responses[1].status = "error"
    /\ responses[2].status = "ok"
    /\ closed = {1}
    /\ nConn = 2
    /\ client_connected = 1

\* ------------------------------------------------------- claims about wait

\* process_command is working on a wait request.
InWait ==
    pcNet \in Processing /\ parse_string(request, "cmd") = "wait"

\* C29: no step of a wait command, from its decoding to its response,
\* changes the registry, the screen shown or the text of any label.
C29_WaitChangesNothing ==
    [][(InWait /\ pcNet' # pcNet) =>
          /\ widget_registry' = widget_registry
          /\ registry_size' = registry_size
          /\ watch_ui' = watch_ui]_vars

\* Two waits have been executed and answered, on a screen other than the
\* one the UI starts with or with a label the application has changed.
C29_Witness ==
    /\ Len(calls) = 2
    /\ \A k \in 1 .. 2 : calls[k].fn = "test_wait"
    /\ Len(responses) = 2
    /\ \A i \in 1 .. 2 : responses[i].status = "ok" /\ responses[i].cmd = "wait"
    /\ watch_ui # UiAfterCreate

\* C30: every JSON response written is one complete line, with its closing
\* brace and its newline, whatever the request and the state of the
\* widgets, a label text longer than the response buffer included.
C30_ResponsesAreCompleteLines ==
    \A i \in 1 .. Len(responses) : responses[i].complete


\* C33: a push that runs while the pump is at work writes only the slot at
\* queue_tail, and that slot is none of head .. head+size-1 (mod capacity):
\* not the head slot whose handler is running without the lock, and no
\* slot of a command still waiting.
C33_PushWritesOutsideOccupied ==
    [][(pcNet \in {"push_copy", "push_reset"} /\ pcNet' # pcNet)
         => \A i \in Slots :
               command_queue'[i] # command_queue[i]
                 => (i = queue_tail /\ i \notin Occupied)]_vars

\* The push has copied its command into a slot while a handler was running
\* on the head slot and another command was waiting behind it.
C33_Witness ==
    /\ pcNet = "push_reset"
    /\ pcUI = "pa_handler"
    /\ queue_size >= 2
    /\ command_queue[queue_tail].seq = pushed + 1


\* The fields of a command_t the pump answers through.
ResultFields(c) ==
    <<c.result, c.response_text, c.response_data, c.response_len>>

\* C34: the pump raises the completion flag of a pushed command in a step
\* of its own, when the slot already holds what the handler returned, and
\* as long as the slot holds that command with its flag raised no step
\* writes its result code or its response fields again.
C34_ResultFinalWhenCompleted ==
    [][\A i \in Slots :
         (/\ command_queue[i].seq \in 1 .. pushed
          /\ command_queue'[i].seq = command_queue[i].seq)
         => /\ (~command_queue[i].completed /\ command_queue'[i].completed)
                 => /\ ResultFields(command_queue'[i])
                         = ResultFields(command_queue[i])
                    /\ \E ok \in BOOLEAN :
                          ResultFields(command_queue[i])
                            = ResultFields(ExecInto(command_queue[i], ok))
            /\ command_queue[i].completed
                 => ResultFields(command_queue'[i])
                      = ResultFields(command_queue[i])]_vars

\* A completed command whose result is not the value push stored, still in
\* its slot while the network thread is pushing the next one.
C34_Witness ==
    /\ pcUI = "pa_lock2"
    /\ command_queue[cmd].completed
    /\ command_queue[cmd].result # TEST_OK
    /\ pcNet \in InPush


CallMade == Len(calls') = Len(calls) + 1

LastCall == calls'[Len(calls')]

\* C38: test_swipe changes the screen shown only when the horizontal
\* displacement is the larger one: to the activity screen when dx < -50, to
\* the main screen when dx > 50. Every other swipe leaves the UI as it was,
\* and a swipe whose four coordinates were read is answered ok.
C38_SwipeFollowsDirection ==
    /\ [][(CallMade /\ LastCall.fn = "test_swipe")
            => LET dx == LastCall.args.x2 - LastCall.args.x1
                   dy == LastCall.args.y2 - LastCall.args.y1
               IN  IF Abs(dx) > Abs(dy) /\ dx < -50
                   THEN /\ watch_ui'.current_screen = "SCREEN_ACTIVITY"
                        /\ "SCREEN_ACTIVITY" \notin watch_ui'.hidden
                   ELSE IF Abs(dx) > Abs(dy) /\ dx > 50
                   THEN /\ watch_ui'.current_screen = "SCREEN_MAIN"
                        /\ "SCREEN_MAIN" \notin watch_ui'.hidden
                   ELSE watch_ui' = watch_ui]_vars
    /\ [](\A i \in DOMAIN responses :
            (responses[i].cmd = "swipe" /\ responses[i].decoded)
              => responses[i].status = "ok")

\* A swipe steeper than the diagonal and more than 50 pixels to the right
\* has been answered ok while the activity screen stayed up.
C38_Witness ==
    /\ Len(responses) = 2
    /\ responses[2].line = Swipe(10, 200, 100, 10)
    /\ responses[2].status = "ok"
    /\ watch_ui.current_screen = "SCREEN_ACTIVITY"


\* C39: exactly one of the three screen backgrounds is visible, the one
\* current_screen names, and a click on btn_heart changes the screen only
\* from the main screen, to the heart-rate screen.
C39_OneScreenVisible ==
    /\ [](Screens \ watch_ui.hidden = {watch_ui.current_screen})
    /\ [][(pcNet = "net_call" /\ pcNet' # pcNet
           /\ request = Click("btn_heart")
           /\ watch_ui'.current_screen # watch_ui.current_screen)
            => /\ watch_ui.current_screen = "SCREEN_MAIN"
               /\ watch_ui'.current_screen = "SCREEN_HEART_RATE"]_vars

\* btn_heart has been clicked while the activity screen was up, and the
\* activity screen is still the one shown.
C39_Witness ==
    /\ pcNet = "idle"
    /\ request = Click("btn_heart")
    /\ watch_ui.current_screen = "SCREEN_ACTIVITY"
    /\ watch_ui.text["lbl_heart_bpm_obj"] = "OPENING..."


\* The texts of the model that contain the word "measuring".
MeasuringTexts == {"Hold still... measuring"}

\* C31: while is_measuring_heart is 1 the instruction label contains
\* "measuring" and the value label reads "Measuring...", whatever commands
\* are executed before the measurement completes.
C31_MeasuringLabelsShown ==
    watch_ui.is_measuring_heart = 1
      => /\ watch_ui.text["lbl_hr_instruction_obj"] \in MeasuringTexts
         /\ watch_ui.text["lbl_hr_value_obj"] = "Measuring..."

\* C32: ui_watch_update completes a measurement (clears is_measuring_heart)
\* only when at least 3 seconds have passed since the long press set
\* is_measuring_heart, however the two threads interleave.
C32_CompletedAfterThreeSeconds ==
    [][(watch_ui.is_measuring_heart = 1 /\ watch_ui'.is_measuring_heart = 0)
         => clock - measureBegan >= 3]_vars


\* The places of a line where key is written with a run of digits as value.
WrittenAt(line, key) ==
    {i \in 1 .. Len(line) - 2 :
        line[i] = Str(key) /\ line[i + 1] = COLON /\ line[i + 2].k = "num"}

\* The parameters a handler takes as int.
IntParams(fn) ==
    CASE fn = "test_swipe" -> {"x1", "y1", "x2", "y2"}
      [] fn = "test_key_event" -> {"code"}
      [] fn \in {"test_longpress", "test_wait"} -> {"ms"}
      [] OTHER -> {}

\* C36: a handler is called with the number written for each of its
\* integer parameters; a run of digits beyond INT_MAX never reaches a
\* handler as some other number.
C36_NumbersAsWritten ==
    pcNet = "srv_handler"
      => \A key \in IntParams(calls[Len(calls)].fn) :
            \A i \in WrittenAt(request, key) :
               /\ ~Overflows(DigitsOf(request[i + 2]))
               /\ calls[Len(calls)].args[key] = request[i + 2].n

\* C37: a handler is called only for a request line that is closed by its
\* brace, and a line that is not is answered with an error.
C37_OnlyClosedObjectsExecuted ==
    /\ pcNet \in {"srv_call", "srv_handler"}
         => (Len(request) >= 2 /\ request[1] = LB
             /\ request[Len(request)] = RB)
    /\ \A i \in DOMAIN responses :
          responses[i].line[Len(responses[i].line)] # RB
            => responses[i].status = "error"


\* The descriptors the server has opened: the listening socket and the
\* connections accept() returned.
OpenedByServer == {ListenSocket} \cup (1 .. nConn)

\* C40: the server closes only descriptors it opened itself; when no client
\* was ever accepted, tcp_server_cleanup closes the listening socket and
\* nothing else.
C40_ClosesOnlyOwnSockets ==
    /\ closed \subseteq OpenedByServer
    /\ (pcUI = "exit" /\ nConn = 0) => closed = {ListenSocket}

=============================================================================
